---- MODULE Spec2Model ----
(***************************************************************************)
(* Model of the pelican inference engine.                                  *)
(*                                                                         *)
(* Spec: the iterative substitution table (src/src/substitution.rs) with   *)
(* the bool client of the trait inference tests, its cycle preparation     *)
(* (src/src/substitution/graph.rs, graph/tarjan.rs) and the pass loop of   *)
(* resolve(), one step per visited partial.                                *)
(*                                                                         *)
(* SpecChecked: the same table with a client whose callbacks can fail.     *)
(* SpecResolveRuns: either client, with resolve() running on once called.  *)
(* SpecTarjan: a Tarjan run over a graph of its own built by add_edge.     *)
(* SpecTarjanSteps: a Tarjan run followed one loop iteration at a time.    *)
(* SpecMap: handles of the layered Map (src/src/map.rs) on a heap of       *)
(* reference-counted cells, with new, claim, update and drop.              *)
(* SpecUnify: the unification Table (src/src/unification.rs) with the      *)
(* Unit/Function client of the lambda tests; unify() takes one step per    *)
(* constraint.  SpecUnifier: the Unifier under any sequence of calls.      *)
(* SpecVars: either table while it is filled.  The union-find table is the *)
(* ena crate's, modelled at the places unification.rs calls it.            *)
(*                                                                         *)
(* HashMap / HashSet iteration order is unspecified in the source; every   *)
(* place the code iterates one is a nondeterministic choice here.          *)
(***************************************************************************)
EXTENDS Integers, Sequences, FiniteSets, TLC

\* Number of variables a table hands out (Table::var is enabled below it).
MaxVar == 3
\* Number of dependency edges a table retains at one time.
MaxEdges == 3
\* Number of edges of the graph handed to a Tarjan run of its own.
MaxGraphEdges == 5
\* Number of layers alive at one time in the map whose update always
\* allocates (the update calls that live handles still remember).
MaxLayers == 3
\* Number of variables a unification table hands out.
MaxUVar == 2
\* Number of constraints queued on a unification table.
MaxConstraints == 2
\* Number of variables of the table a Unifier is driven on.
MaxKeys == 3
\* Number of edges of a graph whose Tarjan run is followed step by step.
MaxWalkEdges == 4

\* Sentinel of an unset lowlink; usize::MAX in the source, narrowed to the
\* largest integer TLC represents (it is only compared with indices).
usize_MAX == 2147483647

Vars == 0 .. (MaxVar - 1)
Value == BOOLEAN

----------------------------------------------------------------------------
\* Option<T> and Result<T, E>

None == [some |-> FALSE]
Some(x) == [some |-> TRUE, val |-> x]
Ok(x) == [ok |-> TRUE, val |-> x]
Err(e) == [ok |-> FALSE, err |-> e]

\* HashMap as a function on its key set
EmptyMap == [k \in {} |-> TRUE]
insert(m, k, v) == [x \in (DOMAIN m) \cup {k} |-> IF x = k THEN v ELSE m[x]]
remove(m, k) == [x \in (DOMAIN m) \ {k} |-> m[x]]

\* All enumeration orders of a finite set (the orders a HashSet / HashMap
\* iteration may produce)
RECURSIVE Orders(_)
Orders(S) ==
    IF S = {} THEN {<<>>}
    ELSE UNION {{<<x>> \o s : s \in Orders(S \ {x})} : x \in S}

\* The members of S in the order given by the sequence ord
Ordered(S, ord) == SelectSeq(ord, LAMBDA x : x \in S)

----------------------------------------------------------------------------
\* impl Value for bool (tests/trait_inference/implementation.rs)

merge_returns_left(left, right) == Ok(left)

merge(left, right) == Ok(left /\ right)

resolve_cycle_ignores_known(known) == Ok(TRUE)

resolve_cycle(known) == Ok(IF known.some THEN known.val ELSE TRUE)

\* A client whose callbacks can fail (the trait lets merge and resolve_cycle
\* return Err(Self::Error)): values are bools, merge rejects two different
\* values and resolve_cycle rejects a cycle nothing is known about.  The
\* error names the call that failed and its arguments.
checked_merge(left, right) ==
    IF left = right THEN Ok(left)
    ELSE Err([call |-> "merge", left |-> left, right |-> right])

checked_resolve_cycle(known) ==
    IF known.some THEN Ok(known.val)
    ELSE Err([call |-> "resolve_cycle"])

\* The type T the table is instantiated with: "bool" or "checked"
VARIABLE client

\* T::merge and T::resolve_cycle, as Table<T> calls them
Value_merge(left, right) ==
    IF client = "bool" THEN merge(left, right) ELSE checked_merge(left, right)

Value_resolve_cycle(known) ==
    IF client = "bool" THEN resolve_cycle(known) ELSE checked_resolve_cycle(known)

\* merge_opt (substitution.rs)
merge_opt(left, right) ==
    CASE ~left.some /\ ~right.some -> Ok(None)
      [] left.some /\ ~right.some -> Ok(Some(left.val))
      [] ~left.some /\ right.some -> Ok(Some(right.val))
      [] left.some /\ right.some ->
            LET m == Value_merge(left.val, right.val)
            IN  IF m.ok THEN Ok(Some(m.val)) ELSE m

----------------------------------------------------------------------------
\* Table<T>: { next_var, known, unknown }

Table_default == [next_var |-> 0, known |-> EmptyMap, unknown |-> EmptyMap]

\* Table::var
var(t) == [table |-> [t EXCEPT !.next_var = t.next_var + 1], ret |-> t.next_var]

fact_keeps_unknown(t, v, value) ==
    IF v \in DOMAIN t.known
    THEN [table |-> t, ret |-> Err(v)]
    ELSE [table |-> [t EXCEPT !.known = insert(t.known, v, value)], ret |-> Ok("unit")]

fact_overwrites(t, v, value) ==
    [table |-> [t EXCEPT !.known = insert(t.known, v, value),
                         !.unknown = remove(t.unknown, v)],
     ret |-> IF v \in DOMAIN t.known THEN Err(v) ELSE Ok("unit")]

\* Table::fact
fact(t, v, value) ==
    IF v \in DOMAIN t.known
    THEN [table |-> t, ret |-> Err(v)]
    ELSE [table |-> [t EXCEPT !.known = insert(t.known, v, value),
                              !.unknown = remove(t.unknown, v)],
          ret |-> Ok("unit")]

dependency_ignores_known(t, v, depends_on) ==
    [t EXCEPT !.unknown =
        insert(t.unknown, v,
               (IF v \in DOMAIN t.unknown THEN t.unknown[v] ELSE {}) \cup {depends_on})]

\* Table::dependency
dependency(t, v, depends_on) ==
    IF v \in DOMAIN t.known
    THEN t
    ELSE [t EXCEPT !.unknown =
            insert(t.unknown, v,
                   (IF v \in DOMAIN t.unknown THEN t.unknown[v] ELSE {}) \cup {depends_on})]

----------------------------------------------------------------------------
\* Graph<Node> (substitution/graph.rs): HashMap<Node, HashSet<Node>>

Graph_new == EmptyMap

\* Graph::add_edge
add_edge_start_only(g, start, end) ==
    insert(g, start, (IF start \in DOMAIN g THEN g[start] ELSE {}) \cup {end})

add_edge(g, start, end) ==
    LET g1 == insert(g, start, (IF start \in DOMAIN g THEN g[start] ELSE {}) \cup {end})
    IN  IF end \in DOMAIN g1 THEN g1 ELSE insert(g1, end, {})

\* Graph::add_edges
RECURSIVE add_edges(_, _, _)
add_edges(g, start, ends) ==
    IF ends = {} THEN g
    ELSE LET end == CHOOSE e \in ends : TRUE
         IN  add_edges(add_edge(g, start, end), start, ends \ {end})

\* Graph::delete_outgoing_edges
delete_outgoing_edges_removes_node(g, node) == remove(g, node)

delete_outgoing_edges(g, node) == insert(g, node, {})

\* Graph::size
size(g) == Cardinality(DOMAIN g)

\* Graph::nodes
nodes(g) == DOMAIN g

\* Graph::children
children(g, node) == IF node \in DOMAIN g THEN Some(g[node]) ELSE None

----------------------------------------------------------------------------
\* Tarjan (substitution/graph/tarjan.rs) with its IndexMap, Stack and
\* Lowlink.  The run is a record threaded through the recursion; panic is
\* set when an assertion of insert, set, pop or pop_until would fail.  The
\* getters (IndexMap::get, IndexMap::lookup, Lowlink::get) return the value
\* they read; their assertions have no counterpart in this form.

\* Tarjan::new
Tarjan_new(g) ==
    [next_index |-> 0, forward |-> EmptyMap, backward |-> EmptyMap,
     stack |-> <<>>, on_stack |-> [i \in 0 .. (size(g) - 1) |-> FALSE],
     lowlink |-> [i \in 0 .. (size(g) - 1) |-> usize_MAX],
     out |-> <<>>, panic |-> FALSE]

\* IndexMap::contains
IndexMap_contains(st, node) == node \in DOMAIN st.forward

\* IndexMap::insert
IndexMap_insert(st, node) ==
    [st EXCEPT !.panic = st.panic \/ IndexMap_contains(st, node),
               !.next_index = st.next_index + 1,
               !.forward = insert(st.forward, node, st.next_index),
               !.backward = insert(st.backward, st.next_index, node)]

\* IndexMap::get
IndexMap_get(st, node) == st.forward[node]

\* IndexMap::lookup
IndexMap_lookup(st, index) == st.backward[index]

\* Stack::contains
Stack_contains(st, index) == st.on_stack[index]

\* Stack::push
Stack_push(st, index) ==
    [st EXCEPT !.on_stack[index] = TRUE, !.stack = Append(st.stack, index)]

\* Stack::pop_until with Inner::pop: pops down to and including index and
\* returns the popped indices in pop order
RECURSIVE Stack_pop_until(_, _, _)
Stack_pop_until_keeps_index(st, index, popped) ==
    IF st.stack = <<>>
    THEN [st |-> [st EXCEPT !.panic = TRUE], popped |-> popped]
    ELSE LET top == st.stack[Len(st.stack)]
             st1 == [st EXCEPT !.stack = SubSeq(st.stack, 1, Len(st.stack) - 1),
                               !.on_stack[top] = FALSE]
         IN  IF top = index
             THEN [st |-> st1, popped |-> popped]
             ELSE Stack_pop_until(st1, index, Append(popped, top))

Stack_pop_until(st, index, popped) ==
    IF st.stack = <<>>
    THEN [st |-> [st EXCEPT !.panic = TRUE], popped |-> popped]
    ELSE LET top == st.stack[Len(st.stack)]
             st1 == [st EXCEPT !.stack = SubSeq(st.stack, 1, Len(st.stack) - 1),
                               !.on_stack[top] = FALSE]
         IN  IF top = index
             THEN [st |-> st1, popped |-> Append(popped, top)]
             ELSE Stack_pop_until(st1, index, Append(popped, top))

\* Lowlink::set
Lowlink_set(st, node, root) ==
    [st EXCEPT !.panic = st.panic \/ st.lowlink[node] # usize_MAX,
               !.lowlink[node] = root]

\* Lowlink::get
Lowlink_get(st, node) == st.lowlink[node]

\* Lowlink::is_root
Lowlink_is_root(st, node) == st.lowlink[node] = node

Lowlink_update_keeps_current(st, node, new) == st

Lowlink_update_takes_new(st, node, new) == [st EXCEPT !.lowlink[node] = new]

\* Lowlink::update
Lowlink_update(st, node, new) ==
    [st EXCEPT !.lowlink[node] = IF st.lowlink[node] < new THEN st.lowlink[node] ELSE new]

\* Tarjan::tarjan_inner; ord fixes the order in which the children of a node
\* are enumerated.  Returns the run and the index given to node.
RECURSIVE tarjan_inner(_, _, _, _)
RECURSIVE tarjan_children(_, _, _, _, _)
tarjan_children(st, g, index, todo, ord) ==
    IF todo = <<>> THEN st
    ELSE LET child == Head(todo)
             st1 == IF ~IndexMap_contains(st, child)
                    THEN LET r == tarjan_inner(st, g, child, ord)
                         IN  Lowlink_update(r.st, index, Lowlink_get(r.st, r.index))
                    ELSE IF Stack_contains(st, IndexMap_get(st, child))
                         THEN Lowlink_update(st, index, IndexMap_get(st, child))
                         ELSE st
         IN  tarjan_children(st1, g, index, Tail(todo), ord)

tarjan_inner_yields_first(st, g, node, ord) ==
    LET index == st.next_index
        st1 == Lowlink_set(Stack_push(IndexMap_insert(st, node), index), index, index)
        st2 == tarjan_children(st1, g, index, Ordered(children(g, node).val, ord), ord)
        st3 == IF Lowlink_is_root(st2, index)
               THEN LET p == Stack_pop_until([st2 EXCEPT !.panic = st2.panic \/ ~Stack_contains(st2, index)],
                                             index, <<>>)
                    IN  [p.st EXCEPT !.out =
                            <<{IndexMap_lookup(p.st, p.popped[i]) : i \in 1 .. Len(p.popped)}>> \o p.st.out]
               ELSE st2
    IN  [st |-> st3, index |-> index]

tarjan_inner(st, g, node, ord) ==
    LET index == st.next_index
        st1 == Lowlink_set(Stack_push(IndexMap_insert(st, node), index), index, index)
        st2 == tarjan_children(st1, g, index, Ordered(children(g, node).val, ord), ord)
        st3 == IF Lowlink_is_root(st2, index)
               THEN LET p == Stack_pop_until([st2 EXCEPT !.panic = st2.panic \/ ~Stack_contains(st2, index)],
                                             index, <<>>)
                    IN  [p.st EXCEPT !.out =
                            Append(p.st.out, {IndexMap_lookup(p.st, p.popped[i]) : i \in 1 .. Len(p.popped)})]
               ELSE st2
    IN  [st |-> st3, index |-> index]

\* Tarjan::tarjan; ord fixes the order in which graph.nodes() is enumerated
RECURSIVE tarjan(_, _, _, _)
tarjan(st, g, todo, ord) ==
    IF todo = <<>> THEN st
    ELSE LET node == Head(todo)
             st1 == IF ~IndexMap_contains(st, node) THEN tarjan_inner(st, g, node, ord).st ELSE st
         IN  tarjan(st1, g, Tail(todo), ord)

\* Graph::strongly_connected_components collected into a Vec
strongly_connected_components(g, ord) ==
    tarjan(Tarjan_new(g), g, Ordered(nodes(g), ord), ord).out

----------------------------------------------------------------------------
\* Cycle preparation (Table::prepare_partials)

\* Partial<T>
Partial(recursive, result, dependencies) ==
    [recursive |-> recursive, result |-> result, dependencies |-> dependencies]

\* prepare_partials, first loop: the graph of the unknown table
RECURSIVE build_graph(_, _)
build_graph(g, unknown) ==
    IF DOMAIN unknown = {} THEN g
    ELSE LET src == CHOOSE s \in DOMAIN unknown : TRUE
         IN  build_graph(add_edges(g, src, unknown[src]), remove(unknown, src))

\* prepare_partials, all_dependencies: the children of the component's nodes
\* that are not members of the component
all_dependencies(g, component) ==
    UNION {children(g, node).val : node \in {n \in component : children(g, n).some}} \ component

rewrite_node_no_self_edge(g, node, deps) ==
    add_edges(delete_outgoing_edges(g, node), node, deps)

\* prepare_partials, inner loop body: the node loses its edges and gets one to
\* every dependency of the component and one to itself
rewrite_node(g, node, deps) ==
    add_edge(add_edges(delete_outgoing_edges(g, node), node, deps), node, node)

RECURSIVE rewrite_nodes(_, _, _)
rewrite_nodes(g, todo, deps) ==
    IF todo = {} THEN g
    ELSE LET node == CHOOSE n \in todo : TRUE
         IN  rewrite_nodes(rewrite_node(g, node, deps), todo \ {node}, deps)

\* A rewrite that keeps, for each node, only the node's own edges out of the
\* component instead of the component's
rewrite_component_own_edges(g, component) ==
    LET own == [n \in component |-> g[n] \ component]
        step[todo \in SUBSET component] ==
            IF todo = {} THEN g
            ELSE LET node == CHOOSE n \in todo : TRUE
                 IN  rewrite_node(step[todo \ {node}], node, own[node])
    IN  step[component]

\* prepare_partials, outer loop body
rewrite_component(g, component) ==
    rewrite_nodes(g, component, all_dependencies(g, component))

RECURSIVE rewrite_components(_, _)
rewrite_components(g, sccs) ==
    IF sccs = <<>> THEN g
    ELSE rewrite_components(rewrite_component(g, Head(sccs)), Tail(sccs))

\* prepare_partials, last loop: the self edge becomes the recursive flag
build_partials(g) ==
    [v \in DOMAIN g |-> Partial(v \in g[v], None, g[v] \ {v})]

\* Table::prepare_partials; ord is the iteration order of the graph's maps
prepare_partials(unknown, ord) ==
    LET graph == build_graph(Graph_new, unknown)
        sccs == strongly_connected_components(graph, ord)
    IN  build_partials(rewrite_components(graph, sccs))

----------------------------------------------------------------------------
\* Partial::try_resolve

\* Error<E>
NoProgress == [kind |-> "NoProgress"]
Custom(e) == [kind |-> "Custom", err |-> e]

\* TryResolveResult<T>; cycle is the argument of the resolve_cycle call that
\* produced the value and pending the dependencies left at that call (None
\* when resolve_cycle was not called)
Complete(value, cycle) == [kind |-> "Complete", val |-> value, cycle |-> cycle]
Incomplete(partial, progressed) ==
    [kind |-> "Incomplete", partial |-> partial, progressed |-> progressed]

\* try_resolve, the loop over the dependencies in the order todo
RECURSIVE try_resolve_loop(_, _, _)
try_resolve_loop_keeps_merged(acc, known, todo) ==
    IF todo = <<>> \/ acc.err.some THEN acc
    ELSE LET dep == Head(todo)
             acc1 == IF dep \in DOMAIN known
                     THEN LET m == merge_opt(acc.new_result, Some(known[dep]))
                          IN  IF m.ok THEN [acc EXCEPT !.new_result = m.val,
                                                       !.new_dependencies = @ \cup {dep}]
                                      ELSE [acc EXCEPT !.err = Some(m.err)]
                     ELSE [acc EXCEPT !.new_dependencies = @ \cup {dep}]
         IN  try_resolve_loop(acc1, known, Tail(todo))

try_resolve_loop(acc, known, todo) ==
    IF todo = <<>> \/ acc.err.some THEN acc
    ELSE LET dep == Head(todo)
             acc1 == IF dep \in DOMAIN known
                     THEN LET m == merge_opt(acc.new_result, Some(known[dep]))
                          IN  IF m.ok THEN [acc EXCEPT !.new_result = m.val]
                                      ELSE [acc EXCEPT !.err = Some(m.err)]
                     ELSE [acc EXCEPT !.new_dependencies = @ \cup {dep}]
         IN  try_resolve_loop(acc1, known, Tail(todo))

try_resolve_forgets_result(self, known, order) ==
    LET loop == try_resolve_loop([new_result |-> None, new_dependencies |-> {}, err |-> None],
                                 known, order)
        progressed == loop.new_result.some
        merged == merge_opt(self.result, loop.new_result)
    IN  IF loop.err.some THEN Err(Custom(loop.err.val))
        ELSE IF ~merged.ok THEN Err(Custom(merged.err))
        ELSE IF loop.new_dependencies # {}
        THEN Ok(Incomplete(Partial(self.recursive, merged.val, loop.new_dependencies), progressed))
        ELSE IF self.recursive
        THEN LET c == Value_resolve_cycle(loop.new_result)
             IN  IF c.ok
                 THEN Ok(Complete(c.val, Some([arg |-> loop.new_result, pending |-> loop.new_dependencies])))
                 ELSE Err(Custom(c.err))
        ELSE IF ~merged.val.some THEN Err(NoProgress)
        ELSE Ok(Complete(merged.val.val, None))

try_resolve_ignores_recursive(self, known, order) ==
    LET loop == try_resolve_loop([new_result |-> None, new_dependencies |-> {}, err |-> None],
                                 known, order)
        progressed == loop.new_result.some
        merged == merge_opt(self.result, loop.new_result)
    IN  IF loop.err.some THEN Err(Custom(loop.err.val))
        ELSE IF ~merged.ok THEN Err(Custom(merged.err))
        ELSE IF loop.new_dependencies # {}
        THEN Ok(Incomplete(Partial(self.recursive, merged.val, loop.new_dependencies), progressed))
        ELSE IF ~merged.val.some THEN Err(NoProgress)
        ELSE Ok(Complete(merged.val.val, None))

\* Partial::try_resolve; order is the iteration order of self.dependencies
try_resolve(self, known, order) ==
    LET loop == try_resolve_loop([new_result |-> None, new_dependencies |-> {}, err |-> None],
                                 known, order)
        progressed == loop.new_result.some
        merged == merge_opt(self.result, loop.new_result)
    IN  IF loop.err.some THEN Err(Custom(loop.err.val))
        ELSE IF ~merged.ok THEN Err(Custom(merged.err))
        ELSE IF loop.new_dependencies # {}
        THEN Ok(Incomplete(Partial(self.recursive, merged.val, loop.new_dependencies), progressed))
        ELSE IF self.recursive
        THEN LET c == Value_resolve_cycle(merged.val)
             IN  IF c.ok
                 THEN Ok(Complete(c.val, Some([arg |-> merged.val, pending |-> loop.new_dependencies])))
                 ELSE Err(Custom(c.err))
        ELSE IF ~merged.val.some THEN Err(NoProgress)
        ELSE Ok(Complete(merged.val.val, None))

----------------------------------------------------------------------------
\* Table::resolve, the body of the loop over the partials of one pass.
\* rs holds the locals complete, next and progress; err is set when the body
\* returns an error and cycle when it called resolve_cycle.

resolve_body_no_skip(rs, v, partial, order) ==
    LET r == try_resolve(partial, rs.complete, order)
    IN  IF ~r.ok THEN [rs EXCEPT !.err = Some(r.err)]
        ELSE IF r.val.kind = "Complete"
        THEN [rs EXCEPT !.complete = insert(rs.complete, v, r.val.val),
                        !.progress = TRUE,
                        !.cycle = r.val.cycle]
        ELSE [rs EXCEPT !.next = insert(rs.next, v, r.val.partial),
                        !.progress = rs.progress \/ r.val.progressed]

resolve_body_drops_incomplete(rs, v, partial, order) ==
    IF v \in DOMAIN rs.complete THEN rs
    ELSE LET r == try_resolve(partial, rs.complete, order)
         IN  IF ~r.ok THEN [rs EXCEPT !.err = Some(r.err)]
             ELSE IF r.val.kind = "Complete"
             THEN [rs EXCEPT !.complete = insert(rs.complete, v, r.val.val),
                             !.progress = TRUE,
                             !.cycle = r.val.cycle]
             ELSE [rs EXCEPT !.progress = TRUE]

resolve_body_swallows_error(rs, v, partial, order) ==
    IF v \in DOMAIN rs.complete THEN rs
    ELSE LET r == try_resolve(partial, rs.complete, order)
         IN  IF ~r.ok THEN [rs EXCEPT !.next = insert(rs.next, v, partial)]
             ELSE IF r.val.kind = "Complete"
             THEN [rs EXCEPT !.complete = insert(rs.complete, v, r.val.val),
                             !.progress = TRUE,
                             !.cycle = r.val.cycle]
             ELSE [rs EXCEPT !.next = insert(rs.next, v, r.val.partial),
                             !.progress = rs.progress \/ r.val.progressed]

resolve_body_keeps_finalized(rs, v, partial, order) ==
    IF v \in DOMAIN rs.complete THEN rs
    ELSE LET r == try_resolve(partial, rs.complete, order)
         IN  IF ~r.ok THEN [rs EXCEPT !.err = Some(r.err)]
             ELSE IF r.val.kind = "Complete"
             THEN [rs EXCEPT !.complete = insert(rs.complete, v, r.val.val),
                             !.next = insert(rs.next, v, partial),
                             !.progress = TRUE,
                             !.cycle = r.val.cycle]
             ELSE [rs EXCEPT !.next = insert(rs.next, v, r.val.partial),
                             !.progress = rs.progress \/ r.val.progressed]

resolve_body_resolves_then_skips(rs, v, partial, order) ==
    LET r == try_resolve(partial, rs.complete, order)
    IN  IF v \in DOMAIN rs.complete
        THEN IF r.ok /\ r.val.kind = "Complete" THEN [rs EXCEPT !.cycle = r.val.cycle] ELSE rs
        ELSE IF ~r.ok THEN [rs EXCEPT !.err = Some(r.err)]
             ELSE IF r.val.kind = "Complete"
             THEN [rs EXCEPT !.complete = insert(rs.complete, v, r.val.val),
                             !.progress = TRUE,
                             !.cycle = r.val.cycle]
             ELSE [rs EXCEPT !.next = insert(rs.next, v, r.val.partial),
                             !.progress = rs.progress \/ r.val.progressed]

resolve_body(rs, v, partial, order) ==
    IF v \in DOMAIN rs.complete THEN rs
    ELSE LET r == try_resolve(partial, rs.complete, order)
         IN  IF ~r.ok THEN [rs EXCEPT !.err = Some(r.err)]
             ELSE IF r.val.kind = "Complete"
             THEN [rs EXCEPT !.complete = insert(rs.complete, v, r.val.val),
                             !.progress = TRUE,
                             !.cycle = r.val.cycle]
             ELSE [rs EXCEPT !.next = insert(rs.next, v, r.val.partial),
                             !.progress = rs.progress \/ r.val.progressed]

----------------------------------------------------------------------------
\* State of one substitution table and of its resolve() call

VARIABLES
    table,      \* the Table: next_var, known, unknown (kept as it was when
                \* resolve() consumed it)
    pc,         \* "open": accepting calls; "prepare": resolve() entered;
                \* "pass": inside a pass; "done": resolve() returned
    ret,        \* the last call on the table and what it returned (for
                \* dependency: whether it returned early on a known fact and
                \* whether the same call had been made before)
    complete,   \* resolve(): the map of resolved variables
    partials,   \* resolve(): the partials of the current pass
    next,       \* resolve(): the partials kept for the next pass
    progress,   \* resolve(): the progress flag of the current pass
    todo,       \* resolve(): partials of this pass not yet visited (those
                \* left unvisited, once resolve() has returned)
    outcome,    \* what resolve() returned: "Ok", "NoProgress", "Custom"
    error,      \* the Error resolve() returned, None while it returned none
    prepared,   \* history: the partials prepare_partials returned
    cycle_log,  \* history: per variable, the resolve_cycle calls made for it
    client_log, \* history: the errors the client's callbacks returned
    passes      \* history: the number of passes started

\* State of a Tarjan run over a graph of its own, of a heap of Map cells and
\* of a unification table
VARIABLES tj, mp, ut

resolve_vars == <<complete, partials, next, progress, todo, outcome, error,
                  prepared, cycle_log, client_log, passes>>

table_vars == <<client, table, pc, ret, resolve_vars>>

vars == <<table_vars, tj, mp, ut>>

\* The variables var() has handed out
Allocated == 0 .. (table.next_var - 1)

\* The dependency edges the table retains
Edges(t) == {e \in Vars \X Vars : e[1] \in DOMAIN t.unknown /\ e[2] \in t.unknown[e[1]]}

\* A table as Table::default() leaves it, no resolve() under way
TableInit ==
    /\ table = Table_default
    /\ pc = "open"
    /\ ret = [op |-> "new"]
    /\ complete = EmptyMap
    /\ partials = EmptyMap
    /\ next = EmptyMap
    /\ progress = FALSE
    /\ todo = {}
    /\ outcome = "none"
    /\ error = None
    /\ prepared = EmptyMap
    /\ cycle_log = EmptyMap
    /\ client_log = <<>>
    /\ passes = 0

\* No Tarjan run and no Map in this behaviour
TjIdle == tj = [phase |-> "idle"]
MpIdle == mp = [phase |-> "idle"]
UtIdle == ut = [phase |-> "idle"]

Init ==
    /\ client = "bool"
    /\ TableInit
    /\ TjIdle
    /\ MpIdle
    /\ UtIdle

\* table.var()
Var ==
    /\ pc = "open"
    /\ table.next_var < MaxVar
    /\ LET r == var(table)
       IN  /\ table' = r.table
           /\ ret' = [op |-> "var", res |-> r.ret]
    /\ UNCHANGED <<client, pc, resolve_vars, tj, mp, ut>>

\* table.fact(v, value)
Fact ==
    /\ pc = "open"
    /\ \E v \in Allocated, value \in Value :
          LET r == fact(table, v, value)
          IN  /\ table' = r.table
              /\ ret' = [op |-> "fact", var |-> v, res |-> r.ret]
    /\ UNCHANGED <<client, pc, resolve_vars, tj, mp, ut>>

\* table.dependency(v, depends_on)
Dependency ==
    /\ pc = "open"
    /\ \E v \in Allocated, depends_on \in Allocated :
          /\ Cardinality(Edges(dependency(table, v, depends_on))) <= MaxEdges
          /\ table' = dependency(table, v, depends_on)
          /\ ret' = [op |-> "dependency", superseded |-> v \in DOMAIN table.known,
                      repeated |-> v \in DOMAIN table.unknown /\ depends_on \in table.unknown[v]]
    /\ UNCHANGED <<client, pc, resolve_vars, tj, mp, ut>>

\* resolve(), the head of the while loop: leaves with Ok when no partial is
\* left, else starts a pass over ps
LoopHead(ps) ==
    /\ partials' = ps
    /\ next' = EmptyMap
    /\ progress' = FALSE
    /\ IF DOMAIN ps = {}
       THEN /\ pc' = "done"
            /\ outcome' = "Ok"
            /\ todo' = {}
            /\ passes' = passes
       ELSE /\ pc' = "pass"
            /\ outcome' = outcome
            /\ todo' = DOMAIN ps
            /\ passes' = passes + 1

\* table.resolve(), entry: the facts become the initial complete map and
\* prepare_partials builds the partials
ResolveBegin ==
    /\ pc = "open"
    /\ pc' = "prepare"
    /\ complete' = table.known
    /\ \E ord \in Orders(nodes(build_graph(Graph_new, table.unknown))) :
          prepared' = prepare_partials(table.unknown, ord)
    /\ ret' = [op |-> "resolve"]
    /\ UNCHANGED <<client, table, partials, next, progress, todo, outcome, error,
                   cycle_log, client_log, passes, tj, mp, ut>>

\* resolve(): the first test of the while loop, on the prepared partials
ResolvePrepare ==
    /\ pc = "prepare"
    /\ LoopHead(prepared)
    /\ UNCHANGED <<client, table, ret, complete, error, prepared, cycle_log, client_log,
                   tj, mp, ut>>

\* The errors the client's callbacks return when the loop body runs for v
\* (try_resolve stops at the first one)
ClientErrors(v, partial, order) ==
    IF v \in DOMAIN complete THEN <<>>
    ELSE LET r == try_resolve(partial, complete, order)
         IN  IF ~r.ok /\ r.err.kind = "Custom" THEN <<r.err.err>> ELSE <<>>

\* resolve(), one iteration of the for loop over the partials
ResolveVisit ==
    /\ pc = "pass"
    /\ \E v \in todo :
       \E order \in Orders(partials[v].dependencies) :
          LET rs == resolve_body([complete |-> complete, next |-> next, progress |-> progress,
                                  err |-> None, cycle |-> None],
                                 v, partials[v], order)
          IN  /\ complete' = rs.complete
              /\ next' = rs.next
              /\ progress' = rs.progress
              /\ cycle_log' = IF rs.cycle.some
                              THEN insert(cycle_log, v,
                                     Append(IF v \in DOMAIN cycle_log THEN cycle_log[v] ELSE <<>>,
                                            rs.cycle.val))
                              ELSE cycle_log
              /\ client_log' = client_log \o ClientErrors(v, partials[v], order)
              /\ IF rs.err.some
                 THEN /\ pc' = "done"
                      /\ outcome' = rs.err.val.kind
                      /\ error' = rs.err
                 ELSE /\ pc' = pc
                      /\ outcome' = outcome
                      /\ error' = error
              /\ todo' = todo \ {v}
    /\ UNCHANGED <<client, table, ret, partials, prepared, passes, tj, mp, ut>>

\* resolve(), the end of a pass: the progress check and the swap
ResolveEndPass ==
    /\ pc = "pass"
    /\ todo = {}
    /\ IF ~progress
       THEN /\ pc' = "done"
            /\ outcome' = "NoProgress"
            /\ error' = Some(NoProgress)
            /\ UNCHANGED <<partials, next, progress, todo, passes>>
       ELSE /\ LoopHead(next)
            /\ error' = error
    /\ UNCHANGED <<client, table, ret, complete, prepared, cycle_log, client_log, tj, mp, ut>>

Next ==
    \/ Var
    \/ Fact
    \/ Dependency
    \/ ResolveBegin
    \/ ResolvePrepare
    \/ ResolveVisit
    \/ ResolveEndPass

Spec == Init /\ [][Next]_vars

\* The same table instantiated with the client whose callbacks can fail
InitChecked ==
    /\ client = "checked"
    /\ TableInit
    /\ TjIdle
    /\ MpIdle
    /\ UtIdle

SpecChecked == InitChecked /\ [][Next]_vars

\* A table of either client whose resolve(), once called, runs on: the
\* method is sequential code, so each of its steps is taken when it is
\* enabled
InitAnyClient ==
    /\ client \in {"bool", "checked"}
    /\ TableInit
    /\ TjIdle
    /\ MpIdle
    /\ UtIdle

SpecResolveRuns ==
    /\ InitAnyClient
    /\ [][Next]_vars
    /\ WF_vars(ResolvePrepare)
    /\ WF_vars(ResolveVisit)
    /\ WF_vars(ResolveEndPass)

----------------------------------------------------------------------------
\* A Tarjan run over a graph built edge by edge (Graph::add_edge, as
\* from_edges of the tests does).  tj.out is the sequence of components in
\* the order the generator yields them; tj.start is the node tarjan_inner
\* was started from, None for a run of strongly_connected_components.

GraphEdges(g) == {e \in (DOMAIN g) \X (DOMAIN g) : e[2] \in g[e[1]]}

InitTarjan ==
    /\ client = "bool"
    /\ TableInit
    /\ tj = [phase |-> "build", graph |-> Graph_new, out |-> <<>>,
             start |-> None, panic |-> FALSE]
    /\ MpIdle
    /\ UtIdle

\* graph.add_edge(start, end)
TjAddEdge ==
    /\ tj.phase = "build"
    /\ \E start \in Vars, end \in Vars :
          /\ Cardinality(GraphEdges(add_edge(tj.graph, start, end))) <= MaxGraphEdges
          /\ tj' = [tj EXCEPT !.graph = add_edge(tj.graph, start, end)]
    /\ UNCHANGED <<table_vars, mp, ut>>

\* graph.strongly_connected_components().collect()
TjComponents ==
    /\ tj.phase = "build"
    /\ \E ord \in Orders(nodes(tj.graph)) :
          LET run == tarjan(Tarjan_new(tj.graph), tj.graph, Ordered(nodes(tj.graph), ord), ord)
          IN  tj' = [tj EXCEPT !.phase = "done", !.out = run.out, !.panic = run.panic]
    /\ UNCHANGED <<table_vars, mp, ut>>

\* Tarjan::new(&graph).tarjan_inner(node), as the tests of tarjan.rs call it
TjInner ==
    /\ tj.phase = "build"
    /\ \E node \in nodes(tj.graph), ord \in Orders(nodes(tj.graph)) :
          LET run == tarjan_inner(Tarjan_new(tj.graph), tj.graph, node, ord).st
          IN  tj' = [tj EXCEPT !.phase = "done", !.out = run.out, !.panic = run.panic,
                               !.start = Some(node)]
    /\ UNCHANGED <<table_vars, mp, ut>>

NextTarjan ==
    \/ TjAddEdge
    \/ TjComponents
    \/ TjInner

SpecTarjan == InitTarjan /\ [][NextTarjan]_vars

----------------------------------------------------------------------------
\* A Tarjan run followed step by step, over a graph built with add_edge,
\* add_edges and delete_outgoing_edges.  tj.st is the run (IndexMap, Stack,
\* Lowlink, the components yielded), tj.roots the nodes the for loop of
\* tarjan() has yet to reach, tj.frames the activations of tarjan_inner,
\* innermost last, each with its node, its index and the children its for
\* loop has yet to reach.  The hash maps and sets are iterated in any
\* order.  A failed assertion, expect or vector index ends the run in the
\* phase "panic" with its message in tj.fault.

InitTarjanSteps ==
    /\ client = "bool"
    /\ TableInit
    /\ tj = [phase |-> "edit", graph |-> Graph_new, st |-> Tarjan_new(Graph_new),
             roots |-> {}, frames |-> <<>>, fault |-> None]
    /\ MpIdle
    /\ UtIdle

\* A panic with the message msg
Panicked(t, msg) == [t EXCEPT !.phase = "panic", !.fault = Some(msg)]

\* tarjan_inner, from its entry to the head of its for loop
tarjan_inner_enter(t, node) ==
    LET index == t.st.next_index
        st1 == Lowlink_set(Stack_push(IndexMap_insert(t.st, node), index), index, index)
    IN  IF IndexMap_contains(t.st, node) THEN Panicked(t, "Cannot insert the same node twice")
        ELSE IF index >= size(t.graph) THEN Panicked(t, "index out of bounds")
        ELSE IF st1.panic THEN Panicked(t, "lowlink is already set")
        ELSE IF ~children(t.graph, node).some THEN Panicked(t, "Node should exist")
        ELSE [t EXCEPT !.st = st1,
                       !.frames = Append(t.frames, [node |-> node, index |-> index,
                                                    todo |-> children(t.graph, node).val])]

\* tarjan_inner, one iteration of the for loop, up to the recursive call
\* when the child has no index
tarjan_inner_child(t, child) ==
    LET top == t.frames[Len(t.frames)]
        t1 == [t EXCEPT !.frames[Len(t.frames)].todo = @ \ {child}]
    IN  IF ~IndexMap_contains(t.st, child) THEN tarjan_inner_enter(t1, child)
        ELSE LET c == IndexMap_get(t.st, child)
             IN  IF c >= size(t.graph) THEN Panicked(t, "index out of bounds")
                 ELSE IF Stack_contains(t.st, c)
                 THEN [t1 EXCEPT !.st = Lowlink_update(t.st, top.index, c)]
                 ELSE t1

\* tarjan_inner, from the end of the for loop to the return, and, in the
\* caller, the rest of the iteration that made the call
tarjan_inner_return(t) ==
    LET top == t.frames[Len(t.frames)]
        p == Stack_pop_until(t.st, top.index, <<>>)
        root == Lowlink_is_root(t.st, top.index)
        st1 == IF root
               THEN [p.st EXCEPT !.out =
                       Append(p.st.out, {IndexMap_lookup(p.st, p.popped[i]) : i \in 1 .. Len(p.popped)})]
               ELSE t.st
        rest == SubSeq(t.frames, 1, Len(t.frames) - 1)
    IN  IF root /\ ~Stack_contains(t.st, top.index)
        THEN Panicked(t, "pop_until called with node not in the stack")
        ELSE IF root /\ p.st.panic THEN Panicked(t, "Pop called on empty stack")
        ELSE IF root /\ \E i \in 1 .. Len(p.popped) : p.popped[i] \notin DOMAIN p.st.backward
        THEN Panicked(t, "Lookup called on unknown node")
        ELSE IF rest = <<>> THEN [t EXCEPT !.st = st1, !.frames = rest]
        ELSE IF Lowlink_get(st1, top.index) = usize_MAX
        THEN Panicked(t, "node has no lowlink assigned")
        ELSE [t EXCEPT !.st = Lowlink_update(st1, rest[Len(rest)].index,
                                             Lowlink_get(st1, top.index)),
                       !.frames = rest]

\* graph.add_edge(start, end)
WalkAddEdge ==
    /\ tj.phase = "edit"
    /\ \E start \in Vars, end \in Vars :
          /\ Cardinality(GraphEdges(add_edge(tj.graph, start, end))) <= MaxWalkEdges
          /\ tj' = [tj EXCEPT !.graph = add_edge(tj.graph, start, end)]
    /\ UNCHANGED <<table_vars, mp, ut>>

\* graph.add_edges(start, &ends)
WalkAddEdges ==
    /\ tj.phase = "edit"
    /\ \E start \in Vars, ends \in SUBSET Vars :
          /\ Cardinality(GraphEdges(add_edges(tj.graph, start, ends))) <= MaxWalkEdges
          /\ tj' = [tj EXCEPT !.graph = add_edges(tj.graph, start, ends)]
    /\ UNCHANGED <<table_vars, mp, ut>>

\* graph.delete_outgoing_edges(node)
WalkDeleteOutgoingEdges ==
    /\ tj.phase = "edit"
    /\ \E node \in Vars :
          tj' = [tj EXCEPT !.graph = delete_outgoing_edges(tj.graph, node)]
    /\ UNCHANGED <<table_vars, mp, ut>>

\* graph.strongly_connected_components(): Tarjan::new and the call of tarjan()
WalkNew ==
    /\ tj.phase = "edit"
    /\ tj' = [tj EXCEPT !.phase = "walk", !.st = Tarjan_new(tj.graph),
                        !.roots = nodes(tj.graph)]
    /\ UNCHANGED <<table_vars, mp, ut>>

\* tarjan(): one iteration of the for loop, up to the call of tarjan_inner
WalkNode ==
    /\ tj.phase = "walk"
    /\ tj.frames = <<>>
    /\ \E node \in tj.roots :
          LET t == [tj EXCEPT !.roots = @ \ {node}]
          IN  tj' = IF ~IndexMap_contains(tj.st, node) THEN tarjan_inner_enter(t, node) ELSE t
    /\ UNCHANGED <<table_vars, mp, ut>>

\* tarjan_inner: one iteration of the for loop over the children
WalkChild ==
    /\ tj.phase = "walk"
    /\ tj.frames # <<>>
    /\ \E child \in tj.frames[Len(tj.frames)].todo : tj' = tarjan_inner_child(tj, child)
    /\ UNCHANGED <<table_vars, mp, ut>>

\* tarjan_inner: the children are done, the component is yielded if the
\* node is its root, and the call returns
WalkReturn ==
    /\ tj.phase = "walk"
    /\ tj.frames # <<>>
    /\ tj.frames[Len(tj.frames)].todo = {}
    /\ tj' = tarjan_inner_return(tj)
    /\ UNCHANGED <<table_vars, mp, ut>>

\* tarjan(): the for loop is over
WalkEnd ==
    /\ tj.phase = "walk"
    /\ tj.frames = <<>>
    /\ tj.roots = {}
    /\ tj' = [tj EXCEPT !.phase = "end"]
    /\ UNCHANGED <<table_vars, mp, ut>>

NextTarjanSteps ==
    \/ WalkAddEdge
    \/ WalkAddEdges
    \/ WalkDeleteOutgoingEdges
    \/ WalkNew
    \/ WalkNode
    \/ WalkChild
    \/ WalkReturn
    \/ WalkEnd

SpecTarjanSteps == InitTarjanSteps /\ [][NextTarjanSteps]_vars

----------------------------------------------------------------------------
\* Map<K, V> (map.rs): handles onto reference-counted cells
\* MapInner { parent, current }.  A heap m is [cells, handles]: cells maps a
\* cell id to [parent, current, strong], strong being the Arc's strong count
\* (the handles onto the cell plus the cells whose parent it is); handles
\* maps the name of each live handle to its cell.

HandleNames == <<"map", "map2">>
MapHandle == {HandleNames[i] : i \in DOMAIN HandleNames}
MapKey == {"x", "y"}
MapVal == {"u", "w"}

\* The id Arc::new gives a new cell: the least one not in use
FreshCell(m) ==
    CHOOSE i \in 0 .. Cardinality(DOMAIN m.cells) :
        /\ i \notin DOMAIN m.cells
        /\ \A j \in 0 .. (i - 1) : j \in DOMAIN m.cells

\* Cell ids stand for addresses, which the program never observes.  A heap
\* is kept in one numbering: the cells in the order in which the chains of
\* the handles, taken by name, first reach them.
RECURSIVE CellChain(_, _)
CellChain(cells, c) ==
    <<c>> \o (IF cells[c].parent.some THEN CellChain(cells, cells[c].parent.val) ELSE <<>>)

RECURSIVE FirstVisits(_, _)
FirstVisits(seq, seen) ==
    IF seq = <<>> THEN <<>>
    ELSE IF Head(seq) \in seen THEN FirstVisits(Tail(seq), seen)
    ELSE <<Head(seq)>> \o FirstVisits(Tail(seq), seen \cup {Head(seq)})

RECURSIVE HandleChains(_, _)
HandleChains(m, i) ==
    IF i > Len(HandleNames) THEN <<>>
    ELSE (IF HandleNames[i] \in DOMAIN m.handles
          THEN CellChain(m.cells, m.handles[HandleNames[i]]) ELSE <<>>)
         \o HandleChains(m, i + 1)

Renumber(m) ==
    LET order == FirstVisits(HandleChains(m, 1), {})
        id(c) == (CHOOSE i \in DOMAIN order : order[i] = c) - 1
    IN  [m EXCEPT !.cells = [n \in 0 .. (Len(order) - 1) |->
                                LET cell == m.cells[order[n + 1]]
                                IN  [cell EXCEPT !.parent =
                                        IF cell.parent.some THEN Some(id(cell.parent.val)) ELSE None]],
                  !.handles = [h \in DOMAIN m.handles |-> id(m.handles[h])]]

\* Map::default / Map::new, the handle stored under the name h
Map_default(m, h) ==
    LET c == FreshCell(m)
    IN  [m EXCEPT !.cells = insert(m.cells, c, [parent |-> None, current |-> EmptyMap, strong |-> 1]),
                  !.handles = insert(m.handles, h, c)]

\* Map::claim: h becomes one more handle onto the cell of g
claim(m, g, h) ==
    LET c == m.handles[g]
    IN  [m EXCEPT !.cells[c].strong = @ + 1,
                  !.handles = insert(m.handles, h, c)]

Arc_get_mut_counts_handles(m, c) ==
    Cardinality({h \in DOMAIN m.handles : m.handles[h] = c}) = 1

\* Arc::get_mut: succeeds when the strong count is one
Arc_get_mut(m, c) == m.cells[c].strong = 1

update_keeps_binding(m, h, k, v) ==
    LET c == m.handles[h]
    IN  IF Arc_get_mut(m, c)
        THEN [m EXCEPT !.cells[c].current =
                 IF k \in DOMAIN @ THEN @ ELSE insert(@, k, v)]
        ELSE LET n == FreshCell(m)
             IN  [m EXCEPT !.cells = insert(m.cells, n,
                                        [parent |-> Some(c), current |-> insert(EmptyMap, k, v),
                                         strong |-> 1]),
                           !.handles[h] = n]

update_drops_parent(m, h, k, v) ==
    LET c == m.handles[h]
    IN  IF Arc_get_mut(m, c)
        THEN [m EXCEPT !.cells[c].current = insert(@, k, v)]
        ELSE LET n == FreshCell(m)
             IN  [m EXCEPT !.cells = insert(m.cells, n,
                                        [parent |-> None, current |-> insert(EmptyMap, k, v),
                                         strong |-> 1]),
                           !.handles[h] = n]

update_copies_layer(m, h, k, v) ==
    LET c == m.handles[h]
    IN  IF Arc_get_mut(m, c)
        THEN [m EXCEPT !.cells[c].current = insert(@, k, v)]
        ELSE LET n == FreshCell(m)
             IN  [m EXCEPT !.cells = insert(m.cells, n,
                                        [parent |-> Some(c),
                                         current |-> insert(m.cells[c].current, k, v),
                                         strong |-> 1]),
                           !.handles[h] = n]

update_always_in_place(m, h, k, v) ==
    [m EXCEPT !.cells[m.handles[h]].current = insert(@, k, v)]

\* Map::update: consumes the handle h and stores the returned one under h
update(m, h, k, v) ==
    LET c == m.handles[h]
    IN  IF Arc_get_mut(m, c)
        THEN [m EXCEPT !.cells[c].current = insert(@, k, v)]
        ELSE LET n == FreshCell(m)
             IN  [m EXCEPT !.cells = insert(m.cells, n,
                                        [parent |-> Some(c), current |-> insert(EmptyMap, k, v),
                                         strong |-> 1]),
                           !.handles[h] = n]

\* Dropping one reference onto cell c: the cell is freed with the last one,
\* which drops its parent handle in turn
RECURSIVE release(_, _)
release(cells, c) ==
    IF cells[c].strong > 1
    THEN [cells EXCEPT ![c].strong = @ - 1]
    ELSE LET rest == remove(cells, c)
         IN  IF cells[c].parent.some THEN release(rest, cells[c].parent.val) ELSE rest

\* Drop of the handle h
drop(m, h) ==
    [m EXCEPT !.cells = release(m.cells, m.handles[h]),
              !.handles = remove(m.handles, h)]

RECURSIVE get(_, _, _)
get_parent_first(cells, c, k) ==
    LET up == IF cells[c].parent.some THEN get(cells, cells[c].parent.val, k) ELSE None
    IN  IF up.some THEN up
        ELSE IF k \in DOMAIN cells[c].current THEN Some(cells[c].current[k])
        ELSE None

\* Map::get on a handle onto cell c
get(cells, c, k) ==
    IF k \in DOMAIN cells[c].current THEN Some(cells[c].current[k])
    ELSE IF cells[c].parent.some THEN get(cells, cells[c].parent.val, k)
    ELSE None

\* A map of the same interface whose update always allocates a new layer
\* holding the one pair: a value [parent, current], never mutated
RefMap_new == [parent |-> None, current |-> EmptyMap]

RefMap_update(r, k, v) == [parent |-> Some(r), current |-> insert(EmptyMap, k, v)]

RECURSIVE RefMap_get(_, _)
RefMap_get(r, k) ==
    IF k \in DOMAIN r.current THEN Some(r.current[k])
    ELSE IF r.parent.some THEN RefMap_get(r.parent.val, k)
    ELSE None

\* The layers of the reference map r, the empty root left out
RECURSIVE RefMap_layers(_)
RefMap_layers(r) ==
    IF r.parent.some THEN {r} \cup RefMap_layers(r.parent.val) ELSE {}

\* mp holds the heap (cells, handles) and, as history: per live handle the
\* value of the last update(k, _) of its lineage for every key (last) and
\* the reference map run alongside (ref); for the latest claim the two
\* handles, what the claimed handle observed at that point and the keys
\* each of the two has updated since (fork, None once either is dropped).
NoBinding == [k \in MapKey |-> None]

InitMap ==
    /\ client = "bool"
    /\ TableInit
    /\ TjIdle
    /\ mp = [phase |-> "run", cells |-> EmptyMap, handles |-> EmptyMap,
             last |-> EmptyMap, ref |-> EmptyMap, fork |-> None]
    /\ UtIdle

\* What the handle h observes: get(k) for every key
View(m, h) == [k \in MapKey |-> get(m.cells, m.handles[h], k)]

\* let h = Map::new()
MapNew ==
    /\ mp.phase = "run"
    /\ \E h \in MapHandle \ DOMAIN mp.handles :
          LET m == Renumber(Map_default(mp, h))
          IN  mp' = [m EXCEPT !.last = insert(mp.last, h, NoBinding),
                              !.ref = insert(mp.ref, h, RefMap_new)]
    /\ UNCHANGED <<table_vars, tj, ut>>

\* let h = g.claim()
MapClaim ==
    /\ mp.phase = "run"
    /\ \E g \in DOMAIN mp.handles, h \in MapHandle \ DOMAIN mp.handles :
          LET m == Renumber(claim(mp, g, h))
          IN  mp' = [m EXCEPT !.last = insert(mp.last, h, mp.last[g]),
                              !.ref = insert(mp.ref, h, mp.ref[g]),
                              !.fork = Some([from |-> g, to |-> h, snap |-> View(mp, g),
                                             own_from |-> {}, own_to |-> {}])]
    /\ UNCHANGED <<table_vars, tj, ut>>

\* The fork record after an update of key k through the handle h
ForkUpdate(fork, h, k) ==
    IF ~fork.some THEN fork
    ELSE IF fork.val.from = h THEN Some([fork.val EXCEPT !.own_from = @ \cup {k}])
    ELSE IF fork.val.to = h THEN Some([fork.val EXCEPT !.own_to = @ \cup {k}])
    ELSE fork

\* let h = h.update(k, v)
MapUpdate ==
    /\ mp.phase = "run"
    /\ \E h \in DOMAIN mp.handles, k \in MapKey, v \in MapVal :
          LET m == Renumber(update(mp, h, k, v))
              r == RefMap_update(mp.ref[h], k, v)
          IN  /\ Cardinality(UNION {RefMap_layers(mp.ref[x]) : x \in DOMAIN mp.ref}
                                \cup RefMap_layers(r)) <= MaxLayers
              /\ mp' = [m EXCEPT !.last[h][k] = Some(v),
                                 !.ref[h] = r,
                                 !.fork = ForkUpdate(mp.fork, h, k)]
    /\ UNCHANGED <<table_vars, tj, ut>>

\* drop(h)
MapDrop ==
    /\ mp.phase = "run"
    /\ \E h \in DOMAIN mp.handles :
          LET m == Renumber(drop(mp, h))
          IN  mp' = [m EXCEPT !.last = remove(mp.last, h),
                              !.ref = remove(mp.ref, h),
                              !.fork = IF mp.fork.some /\ h \in {mp.fork.val.from, mp.fork.val.to}
                                       THEN None ELSE mp.fork]
    /\ UNCHANGED <<table_vars, tj, ut>>

NextMap ==
    \/ MapNew
    \/ MapClaim
    \/ MapUpdate
    \/ MapDrop

SpecMap == InitMap /\ [][NextMap]_vars

----------------------------------------------------------------------------
\* ValueOrVar<T> (unification.rs) and the Type of the lambda tests
\* (unification/tests/lambda/implementation.rs)

VValue(x) == [k |-> "Value", value |-> x]
VVar(v) == [k |-> "Var", var |-> v]

Unit == [t |-> "Unit"]
Function(arg, result) == [t |-> "Function", arg |-> arg, ret |-> result]

\* TypeError
IncompatibleTypes(left, right) == [e |-> "IncompatibleTypes", left |-> left, right |-> right]
InfiniteType(v, typ) == [e |-> "InfiniteType", var |-> v, typ |-> typ]

\* impl Unify for Type: merge
Type_merge(left, right) ==
    IF left # right THEN Err(IncompatibleTypes(left, right)) ELSE Ok(left)

\* Type::contains
RECURSIVE Type_contains(_, _)
Type_contains(typ, v) ==
    IF typ.t = "Unit" THEN FALSE
    ELSE \/ IF typ.arg.k = "Var" THEN typ.arg.var = v ELSE Type_contains(typ.arg.value, v)
         \/ IF typ.ret.k = "Var" THEN typ.ret.var = v ELSE Type_contains(typ.ret.value, v)

\* ValueOrVar::resolve with walk = Type::walk, and Type::walk; types is the
\* map unify() returned
RECURSIVE ValueOrVar_resolve(_, _)
RECURSIVE Type_walk(_, _)
ValueOrVar_resolve(self, types) ==
    IF self.k = "Value" THEN VValue(Type_walk(self.value, types))
    ELSE IF types[self.var].k = "Value"
         THEN VValue(Type_walk(types[self.var].value, types))
         ELSE VVar(types[self.var].var)

Type_walk(typ, types) ==
    IF typ.t = "Unit" THEN Unit
    ELSE Function(ValueOrVar_resolve(typ.arg, types), ValueOrVar_resolve(typ.ret, types))

----------------------------------------------------------------------------
\* The union-find table behind Table<T>: ena's InPlaceUnificationTable over
\* the keys TypedVar (unification/var.rs) with values Option<Value<T>>
\* (unification/value.rs).  tb is [policy, n, parent, rank, value]: n keys
\* 0 .. n-1, parent[k] = k at a root, value[k] the value of the class at
\* its root.  Which of two roots survives a union is the library's choice;
\* policy is "rank" for union by rank, "left" or "right" for the root of
\* the first or of the second argument.

Policies == {"rank", "left", "right"}

ena_new(policy) ==
    [policy |-> policy, n |-> 0, parent |-> EmptyMap, rank |-> EmptyMap, value |-> EmptyMap]

ena_new_key_reuses_key(tb) ==
    [table |-> [tb EXCEPT !.n = tb.n + 1,
                          !.parent = insert(tb.parent, tb.n, tb.n),
                          !.rank = insert(tb.rank, tb.n, 0),
                          !.value = insert(tb.value, tb.n, None)],
     ret |-> IF tb.n = 0 THEN 0 ELSE tb.n - 1]

\* new_key(None)
ena_new_key(tb) ==
    [table |-> [tb EXCEPT !.n = tb.n + 1,
                          !.parent = insert(tb.parent, tb.n, tb.n),
                          !.rank = insert(tb.rank, tb.n, 0),
                          !.value = insert(tb.value, tb.n, None)],
     ret |-> tb.n]

\* find
RECURSIVE ena_find(_, _)
ena_find(tb, key) ==
    IF tb.parent[key] = key THEN key ELSE ena_find(tb, tb.parent[key])

\* probe_value
ena_probe_value(tb, key) == tb.value[ena_find(tb, key)]

\* The members of the class of key
ena_class(tb, key) == {x \in DOMAIN tb.parent : ena_find(tb, x) = ena_find(tb, key)}

\* UnifyValue for Value<T> (value.rs): unify_values calls T::merge
Value_unify_values(left, right) == Type_merge(left, right)

\* UnifyValue for Option<V>; merge_call records the arguments of the call
\* of T::merge, None when it was not called
Option_unify_values(left, right) ==
    CASE ~left.some /\ ~right.some -> [res |-> Ok(None), merge_call |-> None]
      [] left.some /\ ~right.some -> [res |-> Ok(left), merge_call |-> None]
      [] ~left.some /\ right.some -> [res |-> Ok(right), merge_call |-> None]
      [] left.some /\ right.some ->
            LET m == Value_unify_values(left.val, right.val)
            IN  [res |-> IF m.ok THEN Ok(Some(m.val)) ELSE m,
                 merge_call |-> Some([left |-> left.val, right |-> right.val])]

\* redirect_root: old_root now points to new_root, which carries the value
redirect_root(tb, new_rank, old_root, new_root, new_value) ==
    [tb EXCEPT !.parent[old_root] = new_root,
               !.rank[new_root] = new_rank,
               !.value = [@ EXCEPT ![old_root] = None, ![new_root] = new_value]]

\* unify_roots
unify_roots(tb, key_a, key_b, new_value) ==
    LET rank_a == tb.rank[key_a]
        rank_b == tb.rank[key_b]
        new_rank == IF rank_a = rank_b THEN rank_a + 1
                    ELSE IF rank_a > rank_b THEN rank_a ELSE rank_b
    IN  CASE tb.policy = "left" -> redirect_root(tb, new_rank, key_b, key_a, new_value)
          [] tb.policy = "right" -> redirect_root(tb, new_rank, key_a, key_b, new_value)
          [] tb.policy = "rank" ->
                IF rank_a > rank_b
                THEN redirect_root(tb, rank_a, key_b, key_a, new_value)
                ELSE redirect_root(tb, new_rank, key_a, key_b, new_value)

ena_unify_var_var_leaves_classes(tb, a_id, b_id) ==
    LET root_a == ena_find(tb, a_id)
        root_b == ena_find(tb, b_id)
        combined == Option_unify_values(tb.value[root_a], tb.value[root_b])
    IN  IF root_a = root_b
        THEN [table |-> tb, ret |-> Ok("unit"), merge_call |-> None]
        ELSE IF ~combined.res.ok
        THEN [table |-> tb, ret |-> combined.res, merge_call |-> combined.merge_call]
        ELSE [table |-> [tb EXCEPT !.value[root_a] = combined.res.val],
              ret |-> Ok("unit"), merge_call |-> combined.merge_call]

\* unify_var_var
ena_unify_var_var(tb, a_id, b_id) ==
    LET root_a == ena_find(tb, a_id)
        root_b == ena_find(tb, b_id)
        combined == Option_unify_values(tb.value[root_a], tb.value[root_b])
    IN  IF root_a = root_b
        THEN [table |-> tb, ret |-> Ok("unit"), merge_call |-> None]
        ELSE IF ~combined.res.ok
        THEN [table |-> tb, ret |-> combined.res, merge_call |-> combined.merge_call]
        ELSE [table |-> unify_roots(tb, root_a, root_b, combined.res.val),
              ret |-> Ok("unit"), merge_call |-> combined.merge_call]

ena_unify_var_value_binds_key(tb, a_id, b) ==
    LET value == Option_unify_values(tb.value[ena_find(tb, a_id)], b)
    IN  IF ~value.res.ok
        THEN [table |-> tb, ret |-> value.res, merge_call |-> value.merge_call]
        ELSE [table |-> [tb EXCEPT !.value[a_id] = value.res.val],
              ret |-> Ok("unit"), merge_call |-> value.merge_call]

\* unify_var_value
ena_unify_var_value(tb, a_id, b) ==
    LET root_a == ena_find(tb, a_id)
        value == Option_unify_values(tb.value[root_a], b)
    IN  IF ~value.res.ok
        THEN [table |-> tb, ret |-> value.res, merge_call |-> value.merge_call]
        ELSE [table |-> [tb EXCEPT !.value[root_a] = value.res.val],
              ret |-> Ok("unit"), merge_call |-> value.merge_call]

----------------------------------------------------------------------------
\* Unifier<T> (unification.rs)

Unifier_probe_walks_a_level(tb, v) ==
    LET value == tb.value[ena_find(tb, v)]
        inner(x) == IF x.k = "Var" /\ tb.value[ena_find(tb, x.var)].some
                    THEN VValue(tb.value[ena_find(tb, x.var)].val)
                    ELSE x
    IN  IF ~value.some THEN VVar(ena_find(tb, v))
        ELSE IF value.val.t = "Unit" THEN VValue(Unit)
        ELSE VValue(Function(inner(value.val.arg), inner(value.val.ret)))

Unifier_probe_own_key(tb, v) ==
    LET value == tb.value[v]
    IN  IF value.some THEN VValue(value.val) ELSE VVar(v)

\* Unifier::probe
Unifier_probe(tb, v) ==
    LET value == ena_probe_value(tb, v)
    IN  IF value.some THEN VValue(value.val) ELSE VVar(ena_find(tb, v))

\* Unifier::unify_var_var
Unifier_unify_var_var(tb, left, right) == ena_unify_var_var(tb, left, right)

\* Unifier::unify_var_value
Unifier_unify_var_value(tb, v, typ) == ena_unify_var_value(tb, v, Some(typ))

----------------------------------------------------------------------------
\* The Unifier wrapper of the lambda tests.  The calls it makes on the
\* table's Unifier are recorded in log.

\* normalize
RECURSIVE normalize(_, _)
normalize(tb, typ) ==
    IF typ.k = "Value"
    THEN IF typ.value.t = "Unit" THEN VValue(Unit)
         ELSE VValue(Function(normalize(tb, typ.value.arg), normalize(tb, typ.value.ret)))
    ELSE LET probed == Unifier_probe(tb, typ.var)
         IN  IF probed.k = "Var" THEN probed ELSE normalize(tb, probed)

\* unify_typ
RECURSIVE unify_typ(_, _, _, _)
unify_typ_no_occurs_check(tb, log, left, right) ==
    LET l == normalize(tb, left)
        r == normalize(tb, right)
    IN  CASE l.k = "Value" /\ r.k = "Value" /\ l.value.t = "Unit" /\ r.value.t = "Unit" ->
                [table |-> tb, ret |-> Ok("unit"), log |-> log]
          [] l.k = "Value" /\ r.k = "Value" /\ l.value.t = "Function" /\ r.value.t = "Function" ->
                LET first == unify_typ(tb, log, l.value.arg, r.value.arg)
                IN  IF ~first.ret.ok THEN first
                    ELSE unify_typ(first.table, first.log, l.value.ret, r.value.ret)
          [] l.k = "Var" /\ r.k = "Var" ->
                LET u == Unifier_unify_var_var(tb, l.var, r.var)
                IN  [table |-> u.table, ret |-> u.ret,
                     log |-> Append(log, [op |-> "unify_var_var", left |-> l.var, right |-> r.var])]
          [] l.k # r.k ->
                LET v == IF l.k = "Var" THEN l.var ELSE r.var
                    typ == IF l.k = "Var" THEN r.value ELSE l.value
                    u == Unifier_unify_var_value(tb, v, typ)
                IN  [table |-> u.table, ret |-> u.ret,
                     log |-> Append(log, [op |-> "unify_var_value", var |-> v, typ |-> typ])]
          [] OTHER ->
                [table |-> tb, ret |-> Err(IncompatibleTypes(l.value, r.value)), log |-> log]

unify_typ_skips_ret(tb, log, left, right) ==
    LET l == normalize(tb, left)
        r == normalize(tb, right)
    IN  CASE l.k = "Value" /\ r.k = "Value" /\ l.value.t = "Unit" /\ r.value.t = "Unit" ->
                [table |-> tb, ret |-> Ok("unit"), log |-> log]
          [] l.k = "Value" /\ r.k = "Value" /\ l.value.t = "Function" /\ r.value.t = "Function" ->
                unify_typ(tb, log, l.value.arg, r.value.arg)
          [] l.k = "Var" /\ r.k = "Var" ->
                LET u == Unifier_unify_var_var(tb, l.var, r.var)
                IN  [table |-> u.table, ret |-> u.ret,
                     log |-> Append(log, [op |-> "unify_var_var", left |-> l.var, right |-> r.var])]
          [] l.k # r.k ->
                LET v == IF l.k = "Var" THEN l.var ELSE r.var
                    typ == IF l.k = "Var" THEN r.value ELSE l.value
                IN  IF Type_contains(typ, v)
                    THEN [table |-> tb, ret |-> Err(InfiniteType(v, typ)), log |-> log]
                    ELSE LET u == Unifier_unify_var_value(tb, v, typ)
                         IN  [table |-> u.table, ret |-> u.ret,
                              log |-> Append(log, [op |-> "unify_var_value", var |-> v, typ |-> typ])]
          [] OTHER ->
                [table |-> tb, ret |-> Err(IncompatibleTypes(l.value, r.value)), log |-> log]

unify_typ_reports_left_twice(tb, log, left, right) ==
    LET l == normalize(tb, left)
        r == normalize(tb, right)
    IN  CASE l.k = "Value" /\ r.k = "Value" /\ l.value.t = "Unit" /\ r.value.t = "Unit" ->
                [table |-> tb, ret |-> Ok("unit"), log |-> log]
          [] l.k = "Value" /\ r.k = "Value" /\ l.value.t = "Function" /\ r.value.t = "Function" ->
                LET first == unify_typ(tb, log, l.value.arg, r.value.arg)
                IN  IF ~first.ret.ok THEN first
                    ELSE unify_typ(first.table, first.log, l.value.ret, r.value.ret)
          [] l.k = "Var" /\ r.k = "Var" ->
                LET u == Unifier_unify_var_var(tb, l.var, r.var)
                IN  [table |-> u.table, ret |-> u.ret,
                     log |-> Append(log, [op |-> "unify_var_var", left |-> l.var, right |-> r.var])]
          [] l.k # r.k ->
                LET v == IF l.k = "Var" THEN l.var ELSE r.var
                    typ == IF l.k = "Var" THEN r.value ELSE l.value
                IN  IF Type_contains(typ, v)
                    THEN [table |-> tb, ret |-> Err(InfiniteType(v, typ)), log |-> log]
                    ELSE LET u == Unifier_unify_var_value(tb, v, typ)
                         IN  [table |-> u.table, ret |-> u.ret,
                              log |-> Append(log, [op |-> "unify_var_value", var |-> v, typ |-> typ])]
          [] OTHER ->
                [table |-> tb, ret |-> Err(IncompatibleTypes(l.value, l.value)), log |-> log]

unify_typ(tb, log, left, right) ==
    LET l == normalize(tb, left)
        r == normalize(tb, right)
    IN  CASE l.k = "Value" /\ r.k = "Value" /\ l.value.t = "Unit" /\ r.value.t = "Unit" ->
                [table |-> tb, ret |-> Ok("unit"), log |-> log]
          [] l.k = "Value" /\ r.k = "Value" /\ l.value.t = "Function" /\ r.value.t = "Function" ->
                LET first == unify_typ(tb, log, l.value.arg, r.value.arg)
                IN  IF ~first.ret.ok THEN first
                    ELSE unify_typ(first.table, first.log, l.value.ret, r.value.ret)
          [] l.k = "Var" /\ r.k = "Var" ->
                LET u == Unifier_unify_var_var(tb, l.var, r.var)
                IN  [table |-> u.table, ret |-> u.ret,
                     log |-> Append(log, [op |-> "unify_var_var", left |-> l.var, right |-> r.var])]
          [] l.k # r.k ->
                LET v == IF l.k = "Var" THEN l.var ELSE r.var
                    typ == IF l.k = "Var" THEN r.value ELSE l.value
                IN  IF Type_contains(typ, v)
                    THEN [table |-> tb, ret |-> Err(InfiniteType(v, typ)), log |-> log]
                    ELSE LET u == Unifier_unify_var_value(tb, v, typ)
                         IN  [table |-> u.table, ret |-> u.ret,
                              log |-> Append(log, [op |-> "unify_var_value", var |-> v, typ |-> typ])]
          [] OTHER ->
                [table |-> tb, ret |-> Err(IncompatibleTypes(l.value, r.value)), log |-> log]

\* impl Unify for Type: unify
Type_unify(left, right, tb) == unify_typ(tb, <<>>, left, right)

----------------------------------------------------------------------------
\* Table<T> (unification.rs) with T = Type.  ut is
\*   [phase, tb, constraints, returned, pushed, vars, queue, calls, log, result]
\* tb the unification_table and constraints the queue of the table; vars
\* and queue the locals of unify(); returned, pushed, calls and log record
\* the results of var(), the arguments of constraint(), the arguments of
\* the callback and the calls the callback made on the Unifier.

\* Table::default; the clean snapshot is taken of the empty table
Table_new(policy) ==
    [tb |-> ena_new(policy), clean_snapshot |-> 0, constraints |-> <<>>]

\* Table::var
Table_var(self) ==
    LET k == ena_new_key(self.tb)
    IN  [table |-> [self EXCEPT !.tb = k.table], ret |-> k.ret]

\* Table::constraint
Table_constraint(self, left, right) ==
    [self EXCEPT !.constraints = Append(@, [left |-> left, right |-> right])]

get_vars_from_zero_to_last(self) ==
    [i \in 1 .. (self.tb.n - 1) |-> i - 1]

\* Table::get_vars
get_vars(self) ==
    LET start == self.clean_snapshot
        end == self.tb.n
    IN  [i \in 1 .. (end - start) |-> start + i - 1]

\* The arguments constraint() is called with: variables the table handed
\* out, Unit, and functions between such variables; one side is a variable
UTerms(n) ==
    {VVar(i) : i \in 0 .. (n - 1)}
        \cup {VValue(Unit)}
        \cup {VValue(Function(VVar(a), VVar(b))) : a, b \in 0 .. (n - 1)}

UPairs(n) ==
    {p \in UTerms(n) \X UTerms(n) : p[1].k = "Var" \/ p[2].k = "Var"}

InitUnify ==
    /\ client = "bool"
    /\ TableInit
    /\ TjIdle
    /\ MpIdle
    /\ \E policy \in Policies :
          ut = [phase |-> "open"] @@ Table_new(policy) @@
               [returned |-> <<>>, pushed |-> <<>>, vars |-> <<>>, queue |-> <<>>,
                calls |-> <<>>, log |-> <<>>, result |-> None]

\* table.var()
UVar ==
    /\ ut.phase = "open"
    /\ ut.tb.n < MaxUVar
    /\ LET r == Table_var(ut)
       IN  ut' = [r.table EXCEPT !.returned = Append(@, r.ret)]
    /\ UNCHANGED <<table_vars, tj, mp>>

\* table.constraint(left, right)
UConstraint ==
    /\ ut.phase = "open"
    /\ Len(ut.constraints) < MaxConstraints
    /\ \E p \in UPairs(ut.tb.n) :
          ut' = [Table_constraint(ut, p[1], p[2]) EXCEPT
                    !.pushed = Append(@, [left |-> p[1], right |-> p[2]])]
    /\ UNCHANGED <<table_vars, tj, mp>>

\* table.unify(): the variables are listed and the queue is taken
UnifyBegin ==
    /\ ut.phase = "open"
    /\ ut' = [ut EXCEPT !.phase = "drain",
                        !.vars = get_vars(ut),
                        !.queue = ut.constraints,
                        !.constraints = <<>>]
    /\ UNCHANGED <<table_vars, tj, mp>>

UnifyCallback_skips_next(c, r) ==
    IF r.ret.ok
    THEN [ut EXCEPT !.tb = r.table,
                    !.queue = IF Len(@) > 1 THEN Tail(Tail(@)) ELSE Tail(@),
                    !.calls = Append(@, c), !.log = @ \o r.log]
    ELSE [ut EXCEPT !.phase = "done", !.tb = r.table,
                    !.calls = Append(@, c), !.log = @ \o r.log,
                    !.result = Some(r.ret)]

UnifyCallback_goes_on(c, r) ==
    [ut EXCEPT !.tb = r.table, !.queue = Tail(@),
               !.calls = Append(@, c), !.log = @ \o r.log]

\* One turn of the loop of unify(): T::unify(left, right, &mut unifier)?
UnifyCallback_step(c, r) ==
    IF r.ret.ok
    THEN [ut EXCEPT !.tb = r.table, !.queue = Tail(@),
                    !.calls = Append(@, c), !.log = @ \o r.log]
    ELSE [ut EXCEPT !.phase = "done", !.tb = r.table,
                    !.calls = Append(@, c), !.log = @ \o r.log,
                    !.result = Some(r.ret)]

UnifyCallback ==
    /\ ut.phase = "drain"
    /\ ut.queue # <<>>
    /\ LET c == Head(ut.queue)
       IN  ut' = UnifyCallback_step(c, Type_unify(c.left, c.right, ut.tb))
    /\ UNCHANGED <<table_vars, tj, mp>>

\* The second loop of unify(): result.insert(var, unifier.probe(var))
probe_all(tb, vs) ==
    [v \in {vs[i] : i \in DOMAIN vs} |-> Unifier_probe(tb, v)]

UnifyFinish ==
    /\ ut.phase = "drain"
    /\ ut.queue = <<>>
    /\ ut' = [ut EXCEPT !.phase = "done", !.result = Some(Ok(probe_all(ut.tb, ut.vars)))]
    /\ UNCHANGED <<table_vars, tj, mp>>

NextUnify ==
    \/ UVar
    \/ UConstraint
    \/ UnifyBegin
    \/ UnifyCallback
    \/ UnifyFinish

SpecUnify == InitUnify /\ [][NextUnify]_vars

\* A program that fills one table, a substitution table or a unification
\* table, before it resolves or unifies
InitVars ==
    /\ client = "bool"
    /\ TableInit
    /\ TjIdle
    /\ MpIdle
    /\ \/ UtIdle
       \/ \E policy \in Policies :
             ut = [phase |-> "open"] @@ Table_new(policy) @@
                  [returned |-> <<>>, pushed |-> <<>>, vars |-> <<>>, queue |-> <<>>,
                   calls |-> <<>>, log |-> <<>>, result |-> None]

NextVars ==
    \/ UtIdle /\ Var
    \/ UtIdle /\ Fact
    \/ UtIdle /\ Dependency
    \/ UVar
    \/ UConstraint

SpecVars == InitVars /\ [][NextVars]_vars

----------------------------------------------------------------------------
\* The Unifier as a callback may use it: any sequence of probe,
\* unify_var_var and unify_var_value on a table with the variables handed
\* out before unify().  ut is [phase, tb, part, call]: part[v] is the set of
\* variables the successful unify_var_var calls have linked to v, call the
\* last call with the table before it, its result and the arguments of the
\* call of T::merge it made (linked: its two variables were linked before).

\* n calls of var() on a new table
RECURSIVE ena_with_keys(_, _)
ena_with_keys(policy, n) ==
    IF n = 0 THEN ena_new(policy) ELSE ena_new_key(ena_with_keys(policy, n - 1)).table

\* The values unify_var_value is called with; the table only hands them to
\* T::merge
UValues == {Unit, Function(VVar(0), VVar(0))}

InitUnifier ==
    /\ client = "bool"
    /\ TableInit
    /\ TjIdle
    /\ MpIdle
    /\ \E policy \in Policies, n \in 1 .. MaxKeys :
          ut = [phase |-> "unifier",
                tb |-> ena_with_keys(policy, n),
                part |-> [v \in 0 .. (n - 1) |-> {v}],
                call |-> [op |-> "none"]]

\* unifier.probe(v)
UProbe ==
    /\ ut.phase = "unifier"
    /\ \E v \in DOMAIN ut.part :
          ut' = [ut EXCEPT !.call = [op |-> "probe", var |-> v, before |-> ut.tb,
                                     ret |-> Unifier_probe(ut.tb, v)]]
    /\ UNCHANGED <<table_vars, tj, mp>>

\* unifier.unify_var_var(left, right)
UUnifyVarVar ==
    /\ ut.phase = "unifier"
    /\ \E left, right \in DOMAIN ut.part :
          LET r == Unifier_unify_var_var(ut.tb, left, right)
              both == ut.part[left] \cup ut.part[right]
          IN  ut' = [ut EXCEPT
                        !.tb = r.table,
                        !.part = IF r.ret.ok
                                 THEN [v \in DOMAIN @ |-> IF v \in both THEN both ELSE @[v]]
                                 ELSE @,
                        !.call = [op |-> "unify_var_var", left |-> left, right |-> right,
                                  linked |-> right \in ut.part[left],
                                  before |-> ut.tb, ret |-> r.ret,
                                  merge_call |-> r.merge_call]]
    /\ UNCHANGED <<table_vars, tj, mp>>

\* unifier.unify_var_value(v, typ)
UUnifyVarValue ==
    /\ ut.phase = "unifier"
    /\ \E v \in DOMAIN ut.part, typ \in UValues :
          LET r == Unifier_unify_var_value(ut.tb, v, typ)
          IN  ut' = [ut EXCEPT
                        !.tb = r.table,
                        !.call = [op |-> "unify_var_value", var |-> v, typ |-> typ,
                                  before |-> ut.tb, ret |-> r.ret,
                                  merge_call |-> r.merge_call]]
    /\ UNCHANGED <<table_vars, tj, mp>>

NextUnifier ==
    \/ UProbe
    \/ UUnifyVarVar
    \/ UUnifyVarValue

SpecUnifier == InitUnifier /\ [][NextUnifier]_vars

----------------------------------------------------------------------------
\* The registered dependency graph, as the claims speak of it

\* The variables v was registered to depend on
Deps(v) == IF v \in DOMAIN table.unknown THEN table.unknown[v] ELSE {}

RECURSIVE Closure(_, _)
Closure(S, n) ==
    IF n = 0 THEN S ELSE Closure(S \cup UNION {Deps(x) : x \in S}, n - 1)

\* The variables reachable from v along one or more dependency edges
Reach(v) == Closure(Deps(v), MaxVar)

\* v lies on a cycle of the dependency graph (a self-dependency included)
OnCycle(v) == v \in Reach(v)

\* The strongly connected component of v, by mutual reachability
Component(v) == {v} \cup {w \in Reach(v) : v \in Reach(w)}

\* The variables outside C that some member of C depends on
Outer(C) == UNION {Deps(x) : x \in C} \ C

\* The merge (AND) of the values m gives the variables of S; None for no variable
MergeAll(S, m) == IF S = {} THEN None ELSE Some(\A w \in S : m[w])

Resolved == pc = "done" /\ outcome = "Ok"

----------------------------------------------------------------------------
\* C1: with the bool client, after a successful resolve() every variable
\* that has no fact and at least one registered dependency has the AND of
\* the results of the variables it was registered to depend on.
C1_FixedPoint ==
    Resolved =>
        \A v \in DOMAIN table.unknown :
            /\ v \in DOMAIN complete
            /\ table.unknown[v] \subseteq DOMAIN complete
            /\ complete[v] = (\A w \in table.unknown[v] : complete[w])

\* A resolved table in which a variable on a cycle with two registered
\* dependencies came out false
C1_Witness ==
    /\ Resolved
    /\ \E v \in DOMAIN table.unknown :
          /\ OnCycle(v)
          /\ Cardinality(table.unknown[v]) >= 2
          /\ complete[v] = FALSE

\* C2: fact(a,x) then dependency(a,b), dependency(a,b) then fact(a,x), and
\* fact(a,x) alone take any table to the same table (and return the same).
C2_FactSupersedes ==
    \A a \in Allocated, b \in Allocated, x \in Value :
        LET f == fact(table, a, x)
            fact_dep == dependency(f.table, a, b)
            dep_fact == fact(dependency(table, a, b), a, x)
        IN  /\ fact_dep = f.table
            /\ dep_fact.table = f.table
            /\ dep_fact.ret = f.ret

\* dependency() was just called on a variable with a fact and returned
\* early, in a table that also holds dependencies
C2_Witness ==
    /\ pc = "open"
    /\ ret.op = "dependency"
    /\ ret.superseded
    /\ DOMAIN table.unknown # {}

\* C3: no variable is a key of known and of unknown, and no entry of
\* unknown is empty.
C3_KnownUnknownDisjoint ==
    /\ DOMAIN table.known \cap DOMAIN table.unknown = {}
    /\ \A v \in DOMAIN table.unknown : table.unknown[v] # {}

\* fact() just succeeded in a table that holds facts and dependencies
C3_Witness ==
    /\ pc = "open"
    /\ ret.op = "fact"
    /\ ret.res.ok
    /\ DOMAIN table.unknown # {}
    /\ Cardinality(DOMAIN table.known) >= 2

\* C4: fact(v, y) on a variable that already has a fact returns
\* DuplicateFactError(v) and changes nothing of the table.
C4_DuplicateFact ==
    [][(pc = "open" /\ pc' = "open" /\ ret'.op = "fact" /\ ret'.var \in DOMAIN table.known)
        => (ret'.res = Err(ret'.var) /\ table' = table)]_vars

\* fact() just returned DuplicateFactError on a variable whose fact is false
C4_Witness ==
    /\ pc = "open"
    /\ ret.op = "fact"
    /\ ~ret.res.ok
    /\ ret.res.err = ret.var
    /\ table.known[ret.var] = FALSE

\* C5: a successful resolve() has an entry for every variable that had a
\* fact or a registered dependency when resolve() was called.
C5_EveryVariableResolved ==
    Resolved => (DOMAIN table.known \cup DOMAIN table.unknown) \subseteq DOMAIN complete

\* A resolve() that succeeded after more than one pass on a table with
\* facts and dependencies
C5_Witness ==
    /\ Resolved
    /\ passes >= 2
    /\ DOMAIN table.known # {}
    /\ DOMAIN table.unknown # {}

\* C6: a successful resolve() gives every variable with a fact the value of
\* its fact.
C6_FactFinal ==
    Resolved =>
        \A v \in DOMAIN table.known :
            v \in DOMAIN complete /\ complete[v] = table.known[v]

\* A resolved table in which a variable on a cycle depends on a false fact
C6_Witness ==
    /\ Resolved
    /\ \E v \in DOMAIN table.unknown, f \in DOMAIN table.known :
          /\ OnCycle(v)
          /\ f \in table.unknown[v]
          /\ table.known[f] = FALSE
          /\ complete[f] = FALSE

\* C7: all variables of one strongly connected component C that resolve()
\* has to solve get resolve_cycle(merge of the final values of outer(C)),
\* resolve_cycle(None) when outer(C) is empty; a pure cycle comes out true
\* and a cycle with a false external leaf comes out false.
C7_ComponentValue ==
    Resolved =>
        \A v \in DOMAIN complete \ DOMAIN table.known :
            LET C == Component(v)
                outer == Outer(C)
            IN  /\ outer \subseteq DOMAIN complete
                /\ complete[v] = resolve_cycle(MergeAll(outer, complete)).val
                /\ \A w \in C : w \in DOMAIN complete /\ complete[w] = complete[v]
                /\ (OnCycle(v) /\ outer = {}) => complete[v] = TRUE
                /\ (\E f \in outer \cap DOMAIN table.known : table.known[f] = FALSE)
                        => complete[v] = FALSE

\* A resolved component of two or more variables with a false external leaf
C7_Witness ==
    /\ Resolved
    /\ \E v \in DOMAIN table.unknown :
          /\ Cardinality(Component(v)) >= 2
          /\ \E f \in Outer(Component(v)) \cap DOMAIN table.known : table.known[f] = FALSE
          /\ \A w \in Component(v) : complete[w] = FALSE

\* C8: resolve_cycle is called for a variable only if the variable lies on
\* a cycle of the registered dependency graph.
C8_CycleOnly ==
    \A v \in DOMAIN cycle_log : OnCycle(v)

\* C9: resolve_cycle is called at most once per variable, only when nothing
\* but the self edge is pending, with the merge of the final values of the
\* variable's externalized dependencies (None when it has none).
C9_CycleCall ==
    \A v \in DOMAIN cycle_log :
        /\ Len(cycle_log[v]) = 1
        /\ cycle_log[v][1].pending = {}
        /\ prepared[v].recursive
        /\ prepared[v].dependencies \subseteq DOMAIN complete
        /\ cycle_log[v][1].arg = MergeAll(prepared[v].dependencies, complete)

\* resolve_cycle was called for a variable whose two or more externalized
\* dependencies were merged in a pass later than the first
C9_Witness ==
    /\ passes >= 2
    /\ \E v \in DOMAIN cycle_log :
          /\ Cardinality(prepared[v].dependencies) >= 2
          /\ prepared[v].dependencies \cap DOMAIN table.known # {}
          /\ prepared[v].dependencies \ DOMAIN table.known # {}
          /\ cycle_log[v][1].arg.some

----------------------------------------------------------------------------
\* The reference run of resolve(): every map and set is enumerated in
\* ascending order of the variables.

RECURSIVE Ascending(_)
Ascending(S) ==
    IF S = {} THEN <<>>
    ELSE LET least == CHOOSE x \in S : \A y \in S : x <= y
         IN  <<least>> \o Ascending(S \ {least})

\* One pass over ps, visiting the variables in the order todo_seq
RECURSIVE ReferencePass(_, _, _)
ReferencePass(rs, ps, todo_seq) ==
    IF todo_seq = <<>> \/ rs.err.some THEN rs
    ELSE LET v == Head(todo_seq)
         IN  ReferencePass(resolve_body(rs, v, ps[v], Ascending(ps[v].dependencies)),
                           ps, Tail(todo_seq))

\* The while loop from the complete map c and the partials ps
RECURSIVE ReferenceLoop(_, _)
ReferenceLoop(c, ps) ==
    IF DOMAIN ps = {} THEN [outcome |-> "Ok", complete |-> c]
    ELSE LET rs == ReferencePass([complete |-> c, next |-> EmptyMap, progress |-> FALSE,
                                  err |-> None, cycle |-> None],
                                 ps, Ascending(DOMAIN ps))
         IN  IF rs.err.some THEN [outcome |-> rs.err.val.kind, complete |-> EmptyMap]
             ELSE IF ~rs.progress THEN [outcome |-> "NoProgress", complete |-> EmptyMap]
             ELSE ReferenceLoop(rs.complete, rs.next)

ReferenceOutcome ==
    ReferenceLoop(table.known,
                  prepare_partials(table.unknown,
                                   Ascending(nodes(build_graph(Graph_new, table.unknown)))))

\* C10: whatever order a pass visits the partials in and whatever order
\* try_resolve enumerates dependencies in, resolve() ends with the outcome
\* (result map or error kind) of the reference run.
C10_OrderIndependent ==
    pc = "done" =>
        /\ outcome = ReferenceOutcome.outcome
        /\ outcome = "Ok" => complete = ReferenceOutcome.complete

\* A finished resolve() in which some variable merged two dependencies with
\* different values and a pass visited a variable before one it waits for
C10_Witness ==
    /\ pc = "done"
    /\ passes >= 2
    /\ \E v \in DOMAIN prepared :
       \E w1 \in prepared[v].dependencies, w2 \in prepared[v].dependencies :
          /\ w1 \in DOMAIN complete
          /\ w2 \in DOMAIN complete
          /\ complete[w1] # complete[w2]

----------------------------------------------------------------------------
\* C11: the first error a callback of the client returns during resolve()
\* ends the solve in that very step: resolve() has returned Error::Custom
\* wrapping exactly that error, the failing iteration left complete and next
\* as they were, no callback fails after it, and Error::Custom is returned
\* for no other reason.
C11_FirstErrorEnds ==
    [][/\ client_log' # <<>> =>
            /\ pc' = "done"
            /\ outcome' = "Custom"
            /\ error' = Some(Custom(client_log'[1]))
            /\ Len(client_log') = 1
            /\ client_log = <<>> => (complete' = complete /\ next' = next)
       /\ outcome' = "Custom" => client_log' # <<>>]_vars

\* resolve() returned the conflict of a merge while partials of the pass
\* were still unvisited and variables still unresolved
C11_Witness ==
    /\ pc = "done"
    /\ outcome = "Custom"
    /\ error = Some(Custom([call |-> "merge", left |-> TRUE, right |-> FALSE]))
    /\ todo # {}
    /\ \E v \in DOMAIN prepared : v \notin DOMAIN complete

----------------------------------------------------------------------------
\* C12: dependency(v, w) is idempotent.  A call that repeats an earlier one
\* leaves the table as it was, calling it twice on any table gives the table
\* of calling it once, and resolve() merges w into v once: the iteration
\* that visits v merges exactly the pending dependencies that are resolved
\* and takes them off the pending set, so none is merged again.
C12_DependencyIdempotent ==
    [][/\ (ret'.op = "dependency" /\ ret'.repeated) => table' = table
       /\ pc = "open" =>
             \A v \in Vars, w \in Vars :
                dependency(dependency(table, v, w), v, w) = dependency(table, v, w)
       /\ \A v \in todo \ todo' :
             v \notin DOMAIN complete =>
                LET pending == partials[v].dependencies
                IN  IF pending \subseteq DOMAIN complete
                    THEN v \in DOMAIN complete'
                    ELSE /\ v \in DOMAIN next'
                         /\ next'[v].dependencies = pending \ DOMAIN complete]_vars

\* dependency(v, w) was just called a second time on a variable without fact
C12_Witness ==
    /\ ret.op = "dependency"
    /\ ret.repeated
    /\ ~ret.superseded

----------------------------------------------------------------------------
\* The graph of a Tarjan run, as the claims speak of it

\* The nodes that are source or target of an edge
EdgeNodes(g) == {e[1] : e \in GraphEdges(g)} \cup {e[2] : e \in GraphEdges(g)}

RECURSIVE GraphClosure(_, _, _)
GraphClosure(g, S, n) ==
    IF n = 0 THEN S
    ELSE GraphClosure(g, S \cup UNION {g[x] : x \in S}, n - 1)

\* The nodes reachable from a by a path of any length, a itself included
GraphReach(g, a) == GraphClosure(g, {a}, Cardinality(DOMAIN g))

\* The positions in the emitted sequence of the components holding n
EmittedAt(n) == {i \in 1 .. Len(tj.out) : n \in tj.out[i]}

Emitted == UNION {tj.out[i] : i \in 1 .. Len(tj.out)}

\* C13: the components strongly_connected_components emits partition the
\* node set: every node that is source or target of an edge is in exactly
\* one emitted component, and every emitted component is a non-empty set of
\* such nodes.
C13_Partition ==
    (tj.phase = "done" /\ ~tj.start.some) =>
        /\ \A n \in EdgeNodes(tj.graph) : Cardinality(EmittedAt(n)) = 1
        /\ \A i \in 1 .. Len(tj.out) :
              tj.out[i] # {} /\ tj.out[i] \subseteq EdgeNodes(tj.graph)

\* a full run emitted a component of several nodes and another component
C13_Witness ==
    /\ tj.phase = "done"
    /\ ~tj.start.some
    /\ Len(tj.out) >= 2
    /\ \E i \in 1 .. Len(tj.out) : Cardinality(tj.out[i]) >= 2

\* C14: two emitted nodes are in the same emitted component exactly when
\* each is reachable from the other (in a full run and in a run of
\* tarjan_inner from one node alike).
C14_StronglyConnected ==
    tj.phase = "done" =>
        \A a \in Emitted, b \in Emitted :
            (EmittedAt(a) \cap EmittedAt(b) # {})
                <=> (b \in GraphReach(tj.graph, a) /\ a \in GraphReach(tj.graph, b))

\* a run emitted a cycle of two nodes and a node that reaches the cycle
\* without being reachable from it
C14_Witness ==
    /\ tj.phase = "done"
    /\ \E a \in Emitted, b \in Emitted, c \in Emitted :
          /\ a # b
          /\ EmittedAt(a) = EmittedAt(b)
          /\ EmittedAt(c) # EmittedAt(a)
          /\ a \in GraphReach(tj.graph, c)

\* C15: the components come out in reverse topological order of the
\* condensation: when an edge leads from a node of one emitted component
\* to a node of another, the target's component was emitted first, from
\* whichever node the run starts and in whichever order nodes and children
\* are enumerated.
C15_ReverseTopological ==
    tj.phase = "done" =>
        \A a \in Emitted, b \in Emitted :
            (b \in tj.graph[a] /\ EmittedAt(a) # EmittedAt(b)) =>
                \A i \in EmittedAt(a), j \in EmittedAt(b) : j < i

\* a run started from a chosen node emitted two components joined by an
\* edge, one of them a cycle
C15_Witness ==
    /\ tj.phase = "done"
    /\ tj.start.some
    /\ \E a \in Emitted, b \in Emitted :
          /\ b \in tj.graph[a]
          /\ EmittedAt(a) # EmittedAt(b)
          /\ \E i \in 1 .. Len(tj.out) : Cardinality(tj.out[i]) >= 2

----------------------------------------------------------------------------
\* The Map, as the claims speak of it

LiveHandles == DOMAIN mp.handles

\* h.get(k)
Get(h, k) == get(mp.cells, mp.handles[h], k)

\* The chain of cells of the handle h, nearest first
Layers(h) == CellChain(mp.cells, mp.handles[h])

\* C16: along a lineage of update calls, get(k) on the handle returns the
\* value of the last update(k, _) of the lineage, None when there was none.
C16_LastUpdate ==
    mp.phase = "run" =>
        \A h \in LiveHandles, k \in MapKey : Get(h, k) = mp.last[h][k]

\* a lineage of three updates, the last one giving a key of the first a
\* new value
C16_Witness ==
    /\ mp.phase = "run"
    /\ \E h \in LiveHandles :
          LET r == mp.ref[h]
          IN  /\ r.parent.some
              /\ r.parent.val.parent.some
              /\ r.parent.val.parent.val.parent.some
              /\ \E k \in DOMAIN r.current :
                    /\ k \in DOMAIN r.parent.val.parent.val.current
                    /\ r.current[k] # r.parent.val.parent.val.current[k]

\* C17: no step changes what a handle observes unless it is an update made
\* through that very handle: every handle that exists before and after a
\* step and was not itself updated gets the same get(k) for every key.
C17_Frame ==
    [][mp.phase = "run" =>
          \A h \in LiveHandles \cap DOMAIN mp'.handles :
              mp'.ref[h] = mp.ref[h] => View(mp', h) = View(mp, h)]_vars

\* an update through one handle went into a new layer on top of the cell
\* another handle still holds, and gave a key that handle binds a new value
C17_Witness ==
    /\ mp.phase = "run"
    /\ \E g \in LiveHandles, h \in LiveHandles, k \in MapKey :
          /\ mp.cells[mp.handles[g]].parent = Some(mp.handles[h])
          /\ k \in DOMAIN mp.cells[mp.handles[g]].current
          /\ Get(h, k).some
          /\ Get(g, k) # Get(h, k)

\* C18: of two lineages branched by claim(), each observes for every key
\* it has not updated itself since the branch exactly what the claimed
\* handle observed at the branch point: it keeps the bindings of the branch
\* point and sees none of the other's later ones.
C18_Branching ==
    (mp.phase = "run" /\ mp.fork.some) =>
        LET f == mp.fork.val
        IN  \A k \in MapKey :
               /\ k \notin f.own_to => Get(f.to, k) = f.snap[k]
               /\ k \notin f.own_from => Get(f.from, k) = f.snap[k]

\* the branch point had a binding and both lineages were updated after it,
\* on different keys
C18_Witness ==
    /\ mp.phase = "run"
    /\ mp.fork.some
    /\ \E k \in MapKey : mp.fork.val.snap[k].some
    /\ mp.fork.val.own_from # {}
    /\ mp.fork.val.own_to # {}
    /\ mp.fork.val.own_from # mp.fork.val.own_to

\* C19: get(k) returns the binding of the layer nearest to the handle among
\* the layers of its chain that bind k, and a handle on an ancestor layer
\* gets the binding of its own layer whatever the layers above it bind.
C19_Shadowing ==
    mp.phase = "run" =>
        /\ \A h \in LiveHandles, k \in MapKey :
              LET chain == Layers(h)
                  binders == {i \in DOMAIN chain : k \in DOMAIN mp.cells[chain[i]].current}
              IN  Get(h, k) =
                     IF binders = {} THEN None
                     ELSE LET i == CHOOSE x \in binders : \A y \in binders : x <= y
                          IN  Some(mp.cells[chain[i]].current[k])
        /\ \A g \in LiveHandles, h \in LiveHandles, k \in MapKey :
              (/\ \E i \in DOMAIN Layers(h) : i > 1 /\ Layers(h)[i] = mp.handles[g]
               /\ k \in DOMAIN mp.cells[mp.handles[g]].current)
                  => Get(g, k) = Some(mp.cells[mp.handles[g]].current[k])

\* a handle whose own layer shadows the binding of its parent layer, which
\* another handle holds
C19_Witness ==
    /\ mp.phase = "run"
    /\ \E g \in LiveHandles, h \in LiveHandles, k \in MapKey :
          /\ Len(Layers(h)) >= 2
          /\ Layers(h)[2] = mp.handles[g]
          /\ k \in DOMAIN mp.cells[mp.handles[h]].current
          /\ k \in DOMAIN mp.cells[mp.handles[g]].current
          /\ mp.cells[mp.handles[h]].current[k] # mp.cells[mp.handles[g]].current[k]

\* C20: the in-place update is unobservable: on every handle and for every
\* key, get returns what get returns on the reference map whose update
\* always allocates a new layer holding the one pair.
C20_InPlaceUnobservable ==
    mp.phase = "run" =>
        \A h \in LiveHandles, k \in MapKey : Get(h, k) = RefMap_get(mp.ref[h], k)

\* a handle whose cell took two updates in place on top of a parent layer,
\* where the reference map has a layer per update
C20_Witness ==
    /\ mp.phase = "run"
    /\ \E h \in LiveHandles :
          /\ mp.cells[mp.handles[h]].parent.some
          /\ Cardinality(DOMAIN mp.cells[mp.handles[h]].current) = 2
          /\ Cardinality(RefMap_layers(mp.ref[h])) > Len(Layers(h))

----------------------------------------------------------------------------
\* C21: in a fresh unification table and in a fresh substitution table the
\* k-th call of var() returns the variable k-1, whatever constraint, fact
\* and dependency calls come between the calls of var().  For the
\* unification table, the variables returned so far are 0, 1, .., k-1 in
\* this order.  For the substitution table, the counter starts at 0, a call
\* of var() returns the counter and adds one to it, and fact and dependency
\* leave it alone, so that the counter is the number of calls of var().
C21_VarCountsUp ==
    /\ table.next_var = 0
    /\ [](ut.phase # "idle" =>
            ut.returned = [k \in 1 .. Len(ut.returned) |-> k - 1])
    /\ [][/\ (table'.next_var # table.next_var) =>
                (/\ ret' = [op |-> "var", res |-> table.next_var]
                 /\ table'.next_var = table.next_var + 1)
          /\ (table' # table /\ ret'.op \in {"fact", "dependency"}) =>
                (table'.next_var = table.next_var)]_vars

\* Two variables handed out by the unification table with a constraint
\* queued before the second one
C21_Witness ==
    /\ ut.phase = "open"
    /\ ut.returned = <<0, 1>>
    /\ Len(ut.pushed) = 1
    /\ ut.pushed[1] = [left |-> VVar(0), right |-> VValue(Function(VVar(0), VVar(0)))]

\* unify() has returned Ok(map)
UnifySucceeded == ut.phase = "done" /\ ut.result.val.ok

\* unify() has returned an error
UnifyFailed == ut.phase = "done" /\ ~ut.result.val.ok

\* The map unify() returned
UnifyResult == ut.result.val.val

\* C22: unify() hands the queued constraints to the callback in the order
\* constraint() was called, once each: the constraints handed over so far
\* followed by those still to come are the constraints queued before
\* unify(); a successful unify() has handed over all of them; nothing is
\* queued on the table while the queue is drained.
C22_InsertionOrder ==
    /\ ut.phase = "drain" =>
          /\ ut.calls \o ut.queue = ut.pushed
          /\ ut.constraints = <<>>
    /\ ut.phase = "done" =>
          /\ Len(ut.calls) <= Len(ut.pushed)
          /\ ut.calls = SubSeq(ut.pushed, 1, Len(ut.calls))
          /\ ut.constraints = <<>>
    /\ UnifySucceeded => ut.calls = ut.pushed

\* A successful unify() of two different constraints
C22_Witness ==
    /\ UnifySucceeded
    /\ Len(ut.pushed) = 2
    /\ ut.pushed[1] # ut.pushed[2]
    /\ ut.calls = ut.pushed

\* C23: the keys of the map a successful unify() returns are exactly the
\* variables var() returned before, the interval from 0 to their number,
\* whether or not a constraint mentions them.
C23_AllVariables ==
    UnifySucceeded =>
        /\ DOMAIN UnifyResult = {ut.returned[i] : i \in DOMAIN ut.returned}
        /\ DOMAIN UnifyResult = 0 .. (Len(ut.returned) - 1)

\* The variables a constraint mentions
RECURSIVE Type_vars(_)
Type_vars(typ) ==
    IF typ.k = "Var" THEN {typ.var}
    ELSE IF typ.value.t = "Unit" THEN {}
    ELSE Type_vars(typ.value.arg) \cup Type_vars(typ.value.ret)

\* A successful unify() with two variables, one of them in no constraint
C23_Witness ==
    /\ UnifySucceeded
    /\ ut.returned = <<0, 1>>
    /\ ut.pushed # <<>>
    /\ \A i \in DOMAIN ut.pushed :
          1 \notin Type_vars(ut.pushed[i].left) \cup Type_vars(ut.pushed[i].right)
    /\ 1 \in DOMAIN UnifyResult

\* The classes the calls of the callback made: two variables are in one
\* class when a chain of unify_var_var calls links them, and a class is
\* bound to the values unify_var_value was called with on its members
LogLinks ==
    {<<ut.log[i].left, ut.log[i].right>> :
        i \in {j \in DOMAIN ut.log : ut.log[j].op = "unify_var_var"}}

RECURSIVE LogReach(_)
LogReach(S) ==
    LET more == S \cup {e[2] : e \in {l \in LogLinks : l[1] \in S}}
                  \cup {e[1] : e \in {l \in LogLinks : l[2] \in S}}
    IN  IF more = S THEN S ELSE LogReach(more)

LogClass(v) == LogReach({v})

LogBound(v) ==
    {ut.log[i].typ :
        i \in {j \in DOMAIN ut.log :
                 ut.log[j].op = "unify_var_value" /\ ut.log[j].var \in LogClass(v)}}

\* C24: in the map unify() returns, result[v] is Value(x) exactly when the
\* class of v was bound to x; otherwise it is Var(r) for a member r of the
\* class of v, every member of the class maps to the same Var(r), and
\* result[r] = Var(r).
C24_ResultOfProbe ==
    UnifySucceeded =>
        \A v \in DOMAIN UnifyResult :
            /\ UnifyResult[v].k = "Value" <=> LogBound(v) # {}
            /\ UnifyResult[v].k = "Value" => LogBound(v) = {UnifyResult[v].value}
            /\ UnifyResult[v].k = "Var" =>
                  /\ UnifyResult[v].var \in LogClass(v)
                  /\ \A w \in LogClass(v) : UnifyResult[w] = UnifyResult[v]
                  /\ UnifyResult[UnifyResult[v].var] = UnifyResult[v]

\* Two variables in one unbound class: one of them maps to the other
C24_Witness ==
    /\ UnifySucceeded
    /\ \E v \in DOMAIN UnifyResult :
          /\ UnifyResult[v].k = "Var"
          /\ UnifyResult[v].var # v

\* C27: when the callback returns an error for a constraint, unify()
\* returns exactly this error, the callback is not called for the later
\* constraints, and there is no result map: the step of the failing call
\* ends unify() with the error, and nothing happens afterwards.
C27_FirstErrorReturned ==
    [][/\ (ut.phase = "drain" /\ ut.queue # <<>>
            /\ ~Type_unify(Head(ut.queue).left, Head(ut.queue).right, ut.tb).ret.ok) =>
               /\ ut'.phase = "done"
               /\ ut'.result =
                    Some(Type_unify(Head(ut.queue).left, Head(ut.queue).right, ut.tb).ret)
               /\ ~ut'.result.val.ok
               /\ ut'.calls = Append(ut.calls, Head(ut.queue))
       /\ ut.phase = "done" => ut' = ut]_vars

\* unify() failed on the first of two constraints
C27_Witness ==
    /\ UnifyFailed
    /\ Len(ut.pushed) = 2
    /\ Len(ut.calls) = 1

\* C28: with the Unit/Function client, after a successful unify() the two
\* sides of every queued constraint, resolved through the returned map
\* with ValueOrVar::resolve and Type::walk, are structurally equal.
C28_ConstraintsSolved ==
    UnifySucceeded =>
        \A i \in DOMAIN ut.pushed :
            ValueOrVar_resolve(ut.pushed[i].left, UnifyResult)
                = ValueOrVar_resolve(ut.pushed[i].right, UnifyResult)

\* Two constraints are solved, one of them between a function and a
\* variable bound to another function
C28_Witness ==
    /\ UnifySucceeded
    /\ Len(ut.pushed) = 2
    /\ \E i \in DOMAIN ut.log : ut.log[i].op = "unify_var_var"
    /\ \E i \in DOMAIN ut.log :
          ut.log[i].op = "unify_var_value" /\ ut.log[i].typ.t = "Function"
    /\ \E v \in DOMAIN UnifyResult :
          UnifyResult[v].k = "Value" /\ UnifyResult[v].value.t = "Function"

\* The roots the bindings lead to from the roots in S
RECURSIVE BindReach(_, _)
BindReach(tb, S) ==
    LET more == S \cup UNION {{ena_find(tb, x) : x \in Type_vars(VValue(tb.value[r].val))} :
                                r \in {q \in S : tb.value[q].some}}
    IN  IF more = S THEN S ELSE BindReach(tb, more)

\* No class is bound to a value that contains, directly or through the
\* bindings of other classes, a member of the class
NoInfiniteType(tb) ==
    \A r \in DOMAIN tb.value :
        tb.value[r].some =>
            r \notin BindReach(tb, {ena_find(tb, x) : x \in Type_vars(VValue(tb.value[r].val))})

\* C29: with the Unit/Function client, a constraint that after
\* normalization pairs an unbound variable v with a function containing v
\* makes unify() fail with InfiniteType(v, the function) without a call of
\* unify_var_value for the pair, and so no variable is ever bound to a value
\* that contains the variable.
C29_OccursCheck ==
    /\ [](ut.phase # "idle" => NoInfiniteType(ut.tb))
    /\ [][(ut.phase = "drain" /\ ut.queue # <<>>) =>
            LET l == normalize(ut.tb, Head(ut.queue).left)
                r == normalize(ut.tb, Head(ut.queue).right)
                v == IF l.k = "Var" THEN l.var ELSE r.var
                typ == IF l.k = "Var" THEN r.value ELSE l.value
            IN  (l.k # r.k /\ typ.t = "Function" /\ Type_contains(typ, v)) =>
                    /\ ut'.phase = "done"
                    /\ ut'.result = Some(Err(InfiniteType(v, typ)))
                    /\ ut'.log = ut.log
                    /\ ut'.tb = ut.tb]_vars

\* unify() failed with InfiniteType on a constraint whose function holds
\* the variable only after normalization
C29_Witness ==
    /\ UnifyFailed
    /\ ut.result.val.err.e = "InfiniteType"
    /\ Len(ut.calls) = 2
    /\ ut.calls[2].left.k = "Var"
    /\ ut.calls[2].right.k = "Value"
    /\ ~Type_contains(ut.calls[2].right.value, ut.calls[2].left.var)
    /\ ut.result.val.err.typ # ut.calls[2].right.value

\* The variables the variable-variable constraints of the queue link to v
PushedLinks ==
    {<<ut.pushed[i].left.var, ut.pushed[i].right.var>> :
        i \in {j \in DOMAIN ut.pushed :
                 ut.pushed[j].left.k = "Var" /\ ut.pushed[j].right.k = "Var"}}

RECURSIVE PushedReach(_)
PushedReach(S) ==
    LET more == S \cup {e[2] : e \in {l \in PushedLinks : l[1] \in S}}
                  \cup {e[1] : e \in {l \in PushedLinks : l[2] \in S}}
    IN  IF more = S THEN S ELSE PushedReach(more)

\* Constraint i pairs a variable with a value
PairsVarValue(i) == ut.pushed[i].left.k # ut.pushed[i].right.k

VarOf(i) ==
    IF ut.pushed[i].left.k = "Var" THEN ut.pushed[i].left.var ELSE ut.pushed[i].right.var

ValueOf(i) ==
    IF ut.pushed[i].left.k = "Var" THEN ut.pushed[i].right.value ELSE ut.pushed[i].left.value

\* The queue forces one class to be Unit (constraint i) and a function
\* (constraint j): the two constraints pair variables of one class of the
\* variable-variable constraints with Unit and with a function that holds
\* no variable of the class, and the other constraints are
\* variable-variable constraints
ForcesUnitAndFunction(i, j) ==
    /\ i # j
    /\ PairsVarValue(i) /\ ValueOf(i).t = "Unit"
    /\ PairsVarValue(j) /\ ValueOf(j).t = "Function"
    /\ VarOf(j) \in PushedReach({VarOf(i)})
    /\ Type_vars(VValue(ValueOf(j))) \cap PushedReach({VarOf(i)}) = {}
    /\ \A k \in DOMAIN ut.pushed \ {i, j} :
          ut.pushed[k].left.k = "Var" /\ ut.pushed[k].right.k = "Var"

\* C30: with the Unit/Function client, a queue that forces one class to be
\* both Unit and a function makes unify() fail with IncompatibleTypes of
\* Unit and the function, in whatever order and orientation the
\* constraints come.
C30_UnitAgainstFunction ==
    ut.phase = "done" =>
        \A i, j \in DOMAIN ut.pushed :
            ForcesUnitAndFunction(i, j) =>
                /\ UnifyFailed
                /\ ut.result.val.err.e = "IncompatibleTypes"
                /\ {ut.result.val.err.left, ut.result.val.err.right}
                     = {Unit, normalize(ut.tb, VValue(ValueOf(j))).value}

\* The function was bound first and the conflict is reported when Unit
\* arrives
C30_Witness ==
    /\ UnifyFailed
    /\ Len(ut.pushed) = 2
    /\ ForcesUnitAndFunction(2, 1)
    /\ ut.result.val.err.e = "IncompatibleTypes"
    /\ ut.result.val.err.left.t = "Function"

\* The last call of the Unifier, and what the classes of its arguments
\* carried before it
LastCall == ut.call

CalledVarVar == ut.phase = "unifier" /\ LastCall.op = "unify_var_var"

CalledVarValue == ut.phase = "unifier" /\ LastCall.op = "unify_var_value"

ValueBefore(v) == ena_probe_value(LastCall.before, v)

C26_UnifyVarValue ==
    CalledVarValue =>
        LET v == LastCall.var
            x == LastCall.typ
            y == ValueBefore(v)
        IN  /\ ~y.some =>
                  /\ LastCall.ret.ok
                  /\ ~LastCall.merge_call.some
                  /\ \A m \in ut.part[v] : Unifier_probe(ut.tb, m) = VValue(x)
            /\ y.some =>
                  /\ LastCall.merge_call = Some([left |-> y.val, right |-> x])
                  /\ Type_merge(y.val, x).ok =>
                        /\ LastCall.ret.ok
                        /\ \A m \in ut.part[v] :
                              Unifier_probe(ut.tb, m) = VValue(Type_merge(y.val, x).val)
                  /\ ~Type_merge(y.val, x).ok =>
                        /\ LastCall.ret = Type_merge(y.val, x)
                        /\ ut.tb = LastCall.before

\* A value given to a variable linked to two others, none with a value
C26_Witness ==
    /\ CalledVarValue
    /\ ~ValueBefore(LastCall.var).some
    /\ Cardinality(ut.part[LastCall.var]) = 3
    /\ LastCall.ret.ok

\* The number of parent links from key to its root, or -1 when more than
\* fuel links were followed
RECURSIVE LinksToRoot(_, _, _)
LinksToRoot(tb, key, fuel) ==
    IF tb.parent[key] = key THEN 0
    ELSE IF fuel = 0 THEN -1
    ELSE LET rest == LinksToRoot(tb, tb.parent[key], fuel - 1)
         IN  IF rest = -1 THEN -1 ELSE rest + 1

\* C31: probe(v) and the probe loop of unify() end in every state of the
\* table, also when a variable is bound to a value that contains the
\* variable: every variable reaches its root over fewer parent links than
\* there are variables, probe returns the value given to unify_var_value
\* as it was given, the variables inside it untouched, and the probe loop
\* has an entry for every variable.
C31_ProbeOneLevel ==
    ut.phase = "unifier" =>
        /\ \A v \in DOMAIN ut.part :
              /\ LinksToRoot(ut.tb, v, ut.tb.n) \in 0 .. (ut.tb.n - 1)
              /\ Unifier_probe(ut.tb, v).k = "Value" =>
                    Unifier_probe(ut.tb, v).value \in UValues
        /\ DOMAIN probe_all(ut.tb, get_vars(ut @@ [clean_snapshot |-> 0])) = DOMAIN ut.part
        /\ (LastCall.op = "unify_var_value" /\ LastCall.ret.ok) =>
              Unifier_probe(ut.tb, LastCall.var) = VValue(LastCall.typ)
        /\ LastCall.op = "probe" => ut.tb = LastCall.before

\* Variable 0 is bound to a function of variable 0, is linked to another
\* variable, and was probed
C31_Witness ==
    /\ ut.phase = "unifier"
    /\ LastCall.op = "probe"
    /\ LastCall.var = 0
    /\ Cardinality(ut.part[0]) > 1
    /\ LastCall.ret = VValue(Function(VVar(0), VVar(0)))

\* The variables reachable from v along the dependencies of the prepared
\* partials (the self edge is the recursive flag and is not among them)
RECURSIVE PreparedClosure(_, _)
PreparedClosure(S, n) ==
    IF n = 0 THEN S
    ELSE PreparedClosure(
            S \cup UNION {prepared[x].dependencies : x \in S \cap DOMAIN prepared}, n - 1)

PreparedReach(v) == PreparedClosure(prepared[v].dependencies, MaxVar)

\* prepare_partials has run
Prepared == pc \in {"prepare", "pass", "done"}

\* C32: after cycle preparation every node n of the dependency graph, with
\* strongly connected component C, has a partial with recursive = true
\* whose dependencies are outer(C), the nodes outside C that a member of C
\* had an edge to; no partial depends on a member of its own component,
\* and the prepared dependencies have no cycle.
C32_PreparedPartials ==
    Prepared =>
        /\ DOMAIN prepared = DOMAIN table.unknown \cup UNION {Deps(v) : v \in DOMAIN table.unknown}
        /\ \A n \in DOMAIN prepared :
              /\ prepared[n].recursive
              /\ prepared[n].dependencies = Outer(Component(n))
              /\ prepared[n].dependencies \cap Component(n) = {}
              /\ n \notin PreparedReach(n)

\* A component of two variables with an edge out of it, taken by one of
\* its members only
C32_Witness ==
    /\ Prepared
    /\ \E n \in DOMAIN prepared :
          /\ Cardinality(Component(n)) = 2
          /\ Outer(Component(n)) # {}
          /\ Deps(n) \cap Outer(Component(n)) = {}
          /\ prepared[n].dependencies # {}

\* The variables the pass under way has finalized: a partial is the only
\* source of a value for a variable without a fact
FinalizedInPass == {v \in DOMAIN partials \ DOMAIN table.known : v \in DOMAIN complete}

\* C33: with a client whose merge and resolve_cycle never fail, resolve()
\* never returns NoProgress: at the end of every pass the progress flag is
\* set and the pass has finalized a variable, and no partial reaches the
\* branch of try_resolve behind `if recursive`, where NoProgress is
\* returned for a partial without result.
C33_AlwaysProgress ==
    /\ outcome # "NoProgress"
    /\ error # Some(NoProgress)
    /\ (pc = "pass" /\ todo = {}) =>
          /\ progress
          /\ FinalizedInPass # {}
    /\ pc = "pass" =>
          \A v \in todo :
              /\ partials[v].recursive
              /\ \A order \in Orders(partials[v].dependencies) :
                    try_resolve(partials[v], complete, order) # Err(NoProgress)

\* The end of a second pass that finalized a variable and left another
\* for a third pass
C33_Witness ==
    /\ pc = "pass"
    /\ todo = {}
    /\ passes = 2
    /\ FinalizedInPass # {}
    /\ DOMAIN next # {}

\* The dependencies the partials ps still wait for
Pending(ps) == {e \in (DOMAIN ps) \X Vars : e[2] \in ps[e[1]].dependencies}

\* The variables resolve() has to find a value for
Unresolved == DOMAIN prepared \ DOMAIN table.known

\* C34: resolve() terminates for every table.  Once called it returns, a
\* result map or an error; it starts at most as many passes as there are
\* unresolved variables; and a pass that ends without an error leaves
\* fewer partials or fewer pending dependencies than it started with.
C34_ResolveTerminates ==
    /\ [](Prepared => passes <= Cardinality(Unresolved))
    /\ [][(pc = "pass" /\ todo = {} /\ ~(pc' = "done" /\ outcome' # "Ok")) =>
            \/ Cardinality(DOMAIN partials') < Cardinality(DOMAIN partials)
            \/ Cardinality(Pending(partials')) < Cardinality(Pending(partials))]_vars
    /\ (pc = "prepare") ~> (pc = "done" /\ outcome \in {"Ok", "NoProgress", "Custom"})

\* resolve() returned after as many passes as there were unresolved
\* variables, three of them
C34_Witness ==
    /\ pc = "done"
    /\ outcome = "Ok"
    /\ passes = 3
    /\ Cardinality(Unresolved) = 3

\* The variables at either end of a dependency edge the table retains
EdgeEnds == {e[1] : e \in Edges(table)} \cup {e[2] : e \in Edges(table)}

\* The variables that are only the target of retained edges: no fact and no
\* dependencies of their own
TargetOnly == EdgeEnds \ (DOMAIN table.known \cup DOMAIN table.unknown)

\* C35: the partials are the sources and targets of the retained edges, and
\* the keys of a successful resolve() are these together with the variables
\* that have a fact; a variable that is only a target gets
\* resolve_cycle(None); a variable that was only allocated is no key, and
\* the empty table resolves to the empty map.
C35_KeySet ==
    /\ Prepared => DOMAIN prepared = EdgeEnds
    /\ Resolved =>
          /\ DOMAIN complete = DOMAIN table.known \cup EdgeEnds
          /\ \A v \in TargetOnly :
                /\ v \in DOMAIN cycle_log
                /\ cycle_log[v] = <<[arg |-> None, pending |-> {}]>>
                /\ Ok(complete[v]) = resolve_cycle(None)
          /\ \A v \in Allocated \ (DOMAIN table.known \cup EdgeEnds) : v \notin DOMAIN complete
          /\ (table.known = EmptyMap /\ table.unknown = EmptyMap) => complete = EmptyMap

\* A successful resolve() on a table with a dependency whose target has
\* neither fact nor dependencies and a variable that was only allocated
C35_Witness ==
    /\ Resolved
    /\ TargetOnly # {}
    /\ Allocated \ (DOMAIN table.known \cup EdgeEnds) # {}

\* The loop body of resolve() has just run for v
Visited(v) == pc = "pass" /\ v \in todo /\ todo' = todo \ {v}

\* C36: during resolve() an entry of complete is never changed or removed
\* and a step adds at most one entry, for a variable that had none (so a
\* variable is finalized at most once, by at most one resolve_cycle call);
\* the facts keep their values; and the loop body run for a variable that
\* is already complete changes nothing: no resolve_cycle call, no client
\* error, no progress, no partial kept.
C36_CompleteIsFinal ==
    /\ [](Prepared => \A v \in DOMAIN table.known :
                          v \in DOMAIN complete /\ complete[v] = table.known[v])
    /\ [](\A v \in DOMAIN cycle_log : Len(cycle_log[v]) = 1 /\ v \notin DOMAIN table.known)
    /\ [][Prepared =>
            /\ \A v \in DOMAIN complete :
                  v \in DOMAIN complete' /\ complete'[v] = complete[v]
            /\ Cardinality(DOMAIN complete' \ DOMAIN complete) <= 1
            /\ \A v \in DOMAIN complete :
                  Visited(v) => /\ complete' = complete
                                /\ cycle_log' = cycle_log
                                /\ client_log' = client_log
                                /\ next' = next
                                /\ progress' = progress
                                /\ pc' = "pass"]_vars

\* A second pass has finalized a variable, in a resolve() whose first pass
\* dropped the partial of a variable with a fact and called resolve_cycle
C36_Witness ==
    /\ pc = "pass"
    /\ passes >= 2
    /\ \E v \in DOMAIN partials \ todo : v \in DOMAIN complete
    /\ \E v \in DOMAIN prepared \cap DOMAIN table.known : TRUE
    /\ DOMAIN cycle_log # {}

\* The bindings of the cells of the chain of h in the heap m, nearest first
Currents(m, h) ==
    LET chain == CellChain(m.cells, m.handles[h])
    IN  [i \in DOMAIN chain |-> m.cells[chain[i]].current]

\* The handle h is the sole owner of its cell in the heap m
SoleOwner(m, h) == m.cells[m.handles[h]].strong = 1

\* The handle h holds a cell without parent that nothing else refers to
OneCell(m, h) == SoleOwner(m, h) /\ ~m.cells[m.handles[h]].parent.some

\* The step is let h = h.update(k, v), with the pair seen in the reference map
UpdateOf(h) ==
    /\ mp.phase = "run"
    /\ h \in LiveHandles \cap DOMAIN mp'.handles
    /\ mp'.ref[h] # mp.ref[h]

\* C37: update through a handle that is the sole owner of its cell inserts
\* the pair into that cell: no cell is allocated and the chain keeps its
\* length and its other layers, so a map that is never claimed stays one
\* cell without parent that holds all bindings.  update through a handle on
\* a shared cell allocates one cell that holds exactly the new pair and has
\* the prior cell as parent; the prior cell keeps its bindings and stays
\* the cell every other handle reached.
C37_UpdateCells ==
    [][\A h \in MapHandle : UpdateOf(h) =>
          LET pair == mp'.ref[h].current
              k == CHOOSE x \in DOMAIN pair : TRUE
              old == Currents(mp, h)
              new == Currents(mp', h)
          IN  /\ Cardinality(DOMAIN pair) = 1
              /\ SoleOwner(mp, h) =>
                    /\ new = [old EXCEPT ![1] = insert(@, k, pair[k])]
                    /\ Cardinality(DOMAIN mp'.cells) = Cardinality(DOMAIN mp.cells)
                    /\ SoleOwner(mp', h)
                    /\ OneCell(mp, h) =>
                          /\ OneCell(mp', h)
                          /\ \A x \in MapKey :
                                mp'.last[h][x] =
                                   IF x \in DOMAIN new[1] THEN Some(new[1][x]) ELSE None
              /\ ~SoleOwner(mp, h) =>
                    /\ new = <<pair>> \o old
                    /\ Cardinality(DOMAIN mp'.cells) = Cardinality(DOMAIN mp.cells) + 1
                    /\ SoleOwner(mp', h)
                    /\ \A g \in LiveHandles \ {h} :
                          /\ Currents(mp', g) = Currents(mp, g)
                          /\ \A i \in DOMAIN Layers(g) :
                                Layers(g)[i] = mp.handles[h] =>
                                   CellChain(mp'.cells, mp'.handles[g])[i]
                                      = CellChain(mp'.cells, mp'.handles[h])[2]]_vars

\* Two updates went in place into one cell without parent, and an update
\* through a second handle claimed from it went into a new cell of one
\* binding on top of it
C37_Witness ==
    /\ mp.phase = "run"
    /\ \E h \in LiveHandles, g \in LiveHandles :
          /\ ~mp.cells[mp.handles[h]].parent.some
          /\ Cardinality(DOMAIN mp.cells[mp.handles[h]].current) = 2
          /\ mp.cells[mp.handles[g]].parent = Some(mp.handles[h])
          /\ Cardinality(DOMAIN mp.cells[mp.handles[g]].current) = 1
          /\ Cardinality(RefMap_layers(mp.ref[g])) = 3

\* The run of a graph is under way or over
Walking == tj.phase \in {"walk", "end", "panic"}

\* The nodes that have an index
Indexed == DOMAIN tj.st.forward

\* C38: on every graph built with add_edge, add_edges and
\* delete_outgoing_edges the run of strongly_connected_components never
\* panics: no assertion of IndexMap, Lowlink or Stack fails (no node is
\* inserted twice, no lowlink set twice or read unset, the stack is not
\* popped empty, pop_until is called for a node on the stack), every index
\* is below the size of the graph, and every node reached has children().
C38_NeverPanics ==
    Walking =>
        /\ tj.phase # "panic"
        /\ tj.fault = None
        /\ ~tj.st.panic
        /\ tj.st.next_index <= size(tj.graph)
        /\ \A node \in Indexed :
              /\ children(tj.graph, node).some
              /\ tj.st.forward[node] < size(tj.graph)
              /\ tj.st.lowlink[tj.st.forward[node]] # usize_MAX
        /\ \A node \in nodes(tj.graph) : tj.graph[node] \subseteq nodes(tj.graph)
        /\ \A i \in 1 .. Len(tj.frames) : Stack_contains(tj.st, tj.frames[i].index)
        /\ \A i \in 1 .. Len(tj.st.stack) : tj.st.stack[i] \in DOMAIN tj.st.backward

\* A run has ended on a graph with a node left without edges by
\* delete_outgoing_edges, after yielding a component of several nodes and
\* another component
C38_Witness ==
    /\ tj.phase = "end"
    /\ \E node \in nodes(tj.graph) :
          /\ tj.graph[node] = {}
          /\ \A other \in nodes(tj.graph) : node \notin tj.graph[other]
    /\ Len(tj.st.out) >= 2
    /\ \E i \in 1 .. Len(tj.st.out) : Cardinality(tj.st.out[i]) >= 2

\* The strongly connected component of node in the graph of the run
SccOf(node) ==
    {m \in nodes(tj.graph) :
        m \in GraphReach(tj.graph, node) /\ node \in GraphReach(tj.graph, m)}

\* No node of the component of node has a lower index (the nodes that have
\* no index yet will get higher ones)
LowestOfScc(node) ==
    \A m \in SccOf(node) \cap Indexed : tj.st.forward[node] <= tj.st.forward[m]

\* C39: throughout a Tarjan run the lowlink of every node that has an index
\* i is set and at most i, and no step raises it; when the visit of a node
\* ends (tarjan_inner is about to return) its lowlink equals its index
\* exactly when the node has the lowest index of its strongly connected
\* component.
C39_Lowlink ==
    /\ [](Walking =>
            \A node \in Indexed :
               LET i == tj.st.forward[node]
               IN  tj.st.lowlink[i] # usize_MAX /\ tj.st.lowlink[i] <= i)
    /\ [][(tj.phase = "walk" /\ tj'.phase # "panic") =>
            \A node \in Indexed :
               tj'.st.lowlink[tj.st.forward[node]] <= tj.st.lowlink[tj.st.forward[node]]]_vars
    /\ [][(tj.phase = "walk" /\ Len(tj'.frames) < Len(tj.frames)) =>
            LET top == tj.frames[Len(tj.frames)]
            IN  Lowlink_is_root(tj.st, top.index) <=> LowestOfScc(top.node)]_vars

\* The visit of the third node is about to end with the lowlink of the
\* first, after the component of the second was yielded
C39_Witness ==
    /\ tj.phase = "walk"
    /\ tj.frames # <<>>
    /\ LET top == tj.frames[Len(tj.frames)]
       IN  /\ top.todo = {}
           /\ top.index >= 2
           /\ tj.st.lowlink[top.index] < top.index - 1
    /\ tj.st.out # <<>>

====
